---- MODULE Spec2Model ----
(***************************************************************************)
(* The PII filter of src/utils/pii-filter.js (class PIIFilter) as a state  *)
(* machine.  A JavaScript string is a sequence of one-character strings,   *)
(* so that the regular expressions of the filter, String.toLowerCase and   *)
(* String.includes are computed character by character.                    *)
(***************************************************************************)
EXTENDS Integers, Sequences, FiniteSets, TLC

\* ------------------------------------------------------------ characters

Digit == {"0", "1", "2", "3", "4", "5", "6", "7", "8", "9"}

Lower ==
  {"a", "b", "c", "d", "e", "f", "g", "h", "i", "j", "k", "l", "m",
   "n", "o", "p", "q", "r", "s", "t", "u", "v", "w", "x", "y", "z"}

Upper ==
  {"A", "B", "C", "D", "E", "F", "G", "H", "I", "J", "K", "L", "M",
   "N", "O", "P", "Q", "R", "S", "T", "U", "V", "W", "X", "Y", "Z"}

\* \w of a JavaScript regular expression
WordChar == Lower \cup Upper \cup Digit \cup {"_"}

\* \s of a JavaScript regular expression (the ASCII part)
WhiteSpace == {" ", "\t", "\n", "\r", "\f"}

\* [A-Za-z0-9._%+-]
EmailLocalChar == Lower \cup Upper \cup Digit \cup {".", "_", "%", "+", "-"}

\* [A-Za-z0-9.-]
EmailDomainChar == Lower \cup Upper \cup Digit \cup {".", "-"}

\* [A-Z|a-z]: the bar inside the class is a literal character
EmailTldChar == Upper \cup Lower \cup {"|"}

\* [-.\s]
PhoneSep == {"-", "."} \cup WhiteSpace

\* [a-f] under the i flag
HexLetter == {"a", "b", "c", "d", "e", "f", "A", "B", "C", "D", "E", "F"}

\* [^&\s]
UrlValueChar(c) == c \notin ({"&"} \cup WhiteSpace)

\* String.prototype.toLowerCase on one character
LowerOf(c) ==
  CASE c = "A" -> "a" [] c = "B" -> "b" [] c = "C" -> "c" [] c = "D" -> "d"
    [] c = "E" -> "e" [] c = "F" -> "f" [] c = "G" -> "g" [] c = "H" -> "h"
    [] c = "I" -> "i" [] c = "J" -> "j" [] c = "K" -> "k" [] c = "L" -> "l"
    [] c = "M" -> "m" [] c = "N" -> "n" [] c = "O" -> "o" [] c = "P" -> "p"
    [] c = "Q" -> "q" [] c = "R" -> "r" [] c = "S" -> "s" [] c = "T" -> "t"
    [] c = "U" -> "u" [] c = "V" -> "v" [] c = "W" -> "w" [] c = "X" -> "x"
    [] c = "Y" -> "y" [] c = "Z" -> "z" [] OTHER -> c

toLowerCase(s) == [i \in 1..Len(s) |-> LowerOf(s[i])]

\* ------------------------------------------------------- string helpers

\* s occurs in t starting at index i
OccursAt(t, s, i) ==
  /\ i >= 1
  /\ i + Len(s) - 1 <= Len(t)
  /\ \A k \in 1..Len(s) : t[i + k - 1] = s[k]

\* String.prototype.includes
includes(t, s) == \E i \in 1..(Len(t) + 1) : OccursAt(t, s, i)

\* the last index j >= i - 1 such that t[i..j] lies in the class C
RunEnd(t, i, C) ==
  CHOOSE j \in (i - 1)..Len(t) :
    /\ \A k \in i..j : t[k] \in C
    /\ (j = Len(t) \/ t[j + 1] \notin C)

\* all of t[i..j] are digits, and the indices exist
DigitsAt(t, i, j) == i >= 1 /\ j <= Len(t) /\ \A k \in i..j : t[k] \in Digit

\* \b between t[p] and t[p+1] (p = 0: before the text; p = Len(t): after it)
IsWordAt(t, p) == p >= 1 /\ p <= Len(t) /\ t[p] \in WordChar

WordBoundary(t, p) == IsWordAt(t, p) # IsWordAt(t, p + 1)

Max(S) == CHOOSE m \in S : \A n \in S : n <= m

\* F applied to the value of v, with v computed once
With(v, F(_)) == CHOOSE y \in {F(x) : x \in {v}} : TRUE

Min(S) == CHOOSE m \in S : \A n \in S : m <= n

\* Number to decimal string, as a template literal `${n}` renders it
RECURSIVE DecStr(_)
DecStr(n) ==
  LET d == <<"0", "1", "2", "3", "4", "5", "6", "7", "8", "9">>[(n % 10) + 1]
  IN IF n < 10 THEN <<d>> ELSE DecStr(n \div 10) \o <<d>>

\* ------------------------------------------------------------- filterEmails
\* /\b[A-Za-z0-9._%+-]+@[A-Za-z0-9.-]+\.[A-Z|a-z]{2,}\b/g

\* The index of the last character of the match that starts at index i, or 0.
\* The local part runs up to the "@" (which is no local character); the
\* domain and the top-level part are greedy: the longest domain that is
\* followed by a dot, two or more top-level characters and a word boundary,
\* and for it the longest top-level part.
EmailMatchEnd(t, i) ==
  LET localEnd == RunEnd(t, i, EmailLocalChar)
      domStart == localEnd + 2
      domMax == RunEnd(t, domStart, EmailDomainChar)
      TldEnds(d) ==
        {e \in (d + 3)..RunEnd(t, d + 2, EmailTldChar) : WordBoundary(t, e)}
      DomEnds ==
        {d \in domStart..(domMax - 1) : t[d + 1] = "." /\ TldEnds(d) # {}}
  IN IF /\ i >= 1
        /\ i <= Len(t)
        /\ WordBoundary(t, i - 1)
        /\ localEnd >= i
        /\ localEnd < Len(t)
        /\ t[localEnd + 1] = "@"
        /\ DomEnds # {}
     THEN Max(TldEnds(Max(DomEnds)))
     ELSE 0

\* The leftmost index >= pos at which the email pattern matches, or 0.
NextEmailStart(t, pos) ==
  LET starts == {i \in pos..Len(t) : EmailMatchEnd(t, i) # 0}
  IN IF starts = {} THEN 0 ELSE Min(starts)

\* `[EMAIL_${this.counters.email}]`
EmailToken(n) == <<"[", "E", "M", "A", "I", "L", "_">> \o DecStr(n) \o <<"]">>

\* `[PHONE_${this.counters.phone}]`
PhoneToken(n) == <<"[", "P", "H", "O", "N", "E", "_">> \o DecStr(n) \o <<"]">>

Redacted == <<"[", "R", "E", "D", "A", "C", "T", "E", "D", "]">>

\* IssueEmail with the counter read before it is incremented
IssueEmailStale(f) ==
  LET n == f.counters.email + 1
  IN [tok |-> EmailToken(n - 1),
      f |-> [f EXCEPT !.counters.email = n,
                      !.issued.email = Append(@, EmailToken(n - 1))]]

\* this.counters.email++; return `[EMAIL_${this.counters.email}]`, in the
\* replace callback of filterEmails and under an email-like key: [tok, f].
\* f is the filter instance together with the record of what it has issued.
IssueEmail(f) ==
  LET n == f.counters.email + 1
  IN [tok |-> EmailToken(n),
      f |-> [f EXCEPT !.counters.email = n,
                      !.issued.email = Append(@, EmailToken(n))]]

\* text.replace(emailRegex, callback) from index pos on: [out, f]
RECURSIVE filterEmailsFrom(_, _, _)
filterEmailsFrom(t, pos, f) ==
  With(NextEmailStart(t, pos), LAMBDA i :
    IF i = 0
    THEN [out |-> SubSeq(t, pos, Len(t)), f |-> f]
    ELSE With(IssueEmail(f), LAMBDA cb :
         With(filterEmailsFrom(t, EmailMatchEnd(t, i) + 1, cb.f), LAMBDA rest :
           [out |-> SubSeq(t, pos, i - 1) \o cb.tok \o rest.out,
            f |-> rest.f])))

\* filterEmails with a pattern that lacks the g flag: the first match only
filterEmailsFirstOnly(t, f) ==
  With(NextEmailStart(t, 1), LAMBDA i :
    IF i = 0
    THEN [out |-> t, f |-> f]
    ELSE With(IssueEmail(f), LAMBDA cb :
           [out |-> SubSeq(t, 1, i - 1) \o cb.tok
                      \o SubSeq(t, EmailMatchEnd(t, i) + 1, Len(t)),
            f |-> cb.f]))

filterEmails(t, f) == filterEmailsFrom(t, 1, f)

\* -------------------------------------------------------- filterPhoneNumbers

\* the first pattern with groups of three or four digits,
\* /\b\(?\d{3,4}\)?[-.\s]\d{3,4}[-.\s]\d{4}\b/g
UsPhoneMatchEndLoose(t, i) ==
  LET a == IF i >= 1 /\ i <= Len(t) /\ t[i] = "(" THEN i + 1 ELSE i
      g1 == RunEnd(t, a, Digit)
      b == IF g1 < Len(t) /\ t[g1 + 1] = ")" THEN g1 + 2 ELSE g1 + 1
      g2 == IF b < Len(t) THEN RunEnd(t, b + 1, Digit) ELSE b
      e == g2 + 5
  IN IF /\ i >= 1
        /\ i <= Len(t)
        /\ e <= Len(t)
        /\ WordBoundary(t, i - 1)
        /\ g1 - a + 1 \in 3..4
        /\ t[b] \in PhoneSep
        /\ g2 - b \in 3..4
        /\ t[g2 + 1] \in PhoneSep
        /\ DigitsAt(t, g2 + 2, e)
        /\ WordBoundary(t, e)
     THEN e
     ELSE 0

\* /\b\(?\d{3}\)?[-.\s]\d{3}[-.\s]\d{4}\b/g : last index of the match at i, or 0.
\* An opening parenthesis is taken when present (the digits cannot start on
\* it), and so is a closing one (it is no separator).
UsPhoneMatchEnd(t, i) ==
  LET a == IF i >= 1 /\ i <= Len(t) /\ t[i] = "(" THEN i + 1 ELSE i
      b == IF a + 3 <= Len(t) /\ t[a + 3] = ")" THEN a + 4 ELSE a + 3
      e == b + 8
  IN IF /\ i >= 1
        /\ e <= Len(t)
        /\ WordBoundary(t, i - 1)
        /\ DigitsAt(t, a, a + 2)
        /\ t[b] \in PhoneSep
        /\ DigitsAt(t, b + 1, b + 3)
        /\ t[b + 4] \in PhoneSep
        /\ DigitsAt(t, b + 5, b + 8)
        /\ WordBoundary(t, e)
     THEN e
     ELSE 0

\* /\b\+\d{1,3}\s\d{2,4}\s\d{3,4}\s\d{4}\b/g : last index of the match at i, or 0.
\* Each digit group is delimited by white space, so it is the whole run of
\* digits found there.
IntlPhoneMatchEnd(t, i) ==
  LET g1 == RunEnd(t, i + 1, Digit)
      g2 == RunEnd(t, g1 + 2, Digit)
      g3 == RunEnd(t, g2 + 2, Digit)
      g4 == g3 + 5
  IN IF /\ i >= 1
        /\ i <= Len(t)
        /\ WordBoundary(t, i - 1)
        /\ t[i] = "+"
        /\ g1 - i \in 1..3
        /\ g1 < Len(t) /\ t[g1 + 1] \in WhiteSpace
        /\ g2 - (g1 + 1) \in 2..4
        /\ g2 < Len(t) /\ t[g2 + 1] \in WhiteSpace
        /\ g3 - (g2 + 1) \in 3..4
        /\ g3 < Len(t) /\ t[g3 + 1] \in WhiteSpace
        /\ DigitsAt(t, g3 + 2, g4)
        /\ WordBoundary(t, g4)
     THEN g4
     ELSE 0

\* /\b\d{3}\.\d{3}\.\d{4}\b/g : last index of the match at i, or 0.
DotPhoneMatchEnd(t, i) ==
  LET e == i + 11
  IN IF /\ i >= 1
        /\ e <= Len(t)
        /\ WordBoundary(t, i - 1)
        /\ DigitsAt(t, i, i + 2)
        /\ t[i + 3] = "."
        /\ DigitsAt(t, i + 4, i + 6)
        /\ t[i + 7] = "."
        /\ DigitsAt(t, i + 8, i + 11)
        /\ WordBoundary(t, e)
     THEN e
     ELSE 0

\* phonePatterns[p]
PhoneMatchEnd(p, t, i) ==
  CASE p = 1 -> UsPhoneMatchEnd(t, i)
    [] p = 2 -> IntlPhoneMatchEnd(t, i)
    [] OTHER -> DotPhoneMatchEnd(t, i)

NextPhoneStart(p, t, pos) ==
  LET starts == {i \in pos..Len(t) : PhoneMatchEnd(p, t, i) # 0}
  IN IF starts = {} THEN 0 ELSE Min(starts)

\* !/[a-f]/i.test(match) && !/:/.test(match)
PhoneGuard(m) == \A k \in 1..Len(m) : m[k] \notin HexLetter /\ m[k] # ":"

\* IssuePhone that counts on the email counter
IssuePhoneCountsEmail(f) ==
  LET n == f.counters.email + 1
  IN [tok |-> PhoneToken(n),
      f |-> [f EXCEPT !.counters.email = n,
                      !.issued.phone = Append(@, PhoneToken(n))]]

\* this.counters.phone++; return `[PHONE_${this.counters.phone}]`, in the
\* replace callback of filterPhoneNumbers and under a phone-like key: [tok, f]
IssuePhone(f) ==
  LET n == f.counters.phone + 1
  IN [tok |-> PhoneToken(n),
      f |-> [f EXCEPT !.counters.phone = n,
                      !.issued.phone = Append(@, PhoneToken(n))]]

\* filtered.replace(pattern, callback) for pattern p, from index pos on
RECURSIVE replacePhonesFrom(_, _, _, _)
replacePhonesFrom(p, t, pos, f) ==
  With(NextPhoneStart(p, t, pos), LAMBDA i :
    IF i = 0
    THEN [out |-> SubSeq(t, pos, Len(t)), f |-> f]
    ELSE With(PhoneMatchEnd(p, t, i), LAMBDA e :
         With(SubSeq(t, i, e), LAMBDA m :
         With(IF PhoneGuard(m) THEN IssuePhone(f) ELSE [tok |-> m, f |-> f],
              LAMBDA cb :
         With(replacePhonesFrom(p, t, e + 1, cb.f), LAMBDA rest :
           [out |-> SubSeq(t, pos, i - 1) \o cb.tok \o rest.out,
            f |-> rest.f])))))

\* filterPhoneNumbers with the international pattern first in the array
filterPhoneNumbersIntlFirst(t, f) ==
  With(replacePhonesFrom(2, t, 1, f), LAMBDA r1 :
  With(replacePhonesFrom(1, r1.out, 1, r1.f), LAMBDA r2 :
    replacePhonesFrom(3, r2.out, 1, r2.f)))

\* phonePatterns.forEach: each pattern over the result of the one before
filterPhoneNumbers(t, f) ==
  With(replacePhonesFrom(1, t, 1, f), LAMBDA r1 :
  With(replacePhonesFrom(2, r1.out, 1, r1.f), LAMBDA r2 :
    replacePhonesFrom(3, r2.out, 1, r2.f)))

\* ------------------------------------------------------- filterSensitiveUrls

\* the parameter names of the two patterns, with their "="
EmailParam == <<"e", "m", "a", "i", "l", "=">>

UserIdParams ==
  << <<"u", "s", "e", "r", "_", "i", "d", "=">>,
     <<"u", "s", "e", "r", "I", "d", "=">>,
     <<"u", "i", "d", "=">> >>

\* /([?&]<name>=)[^&\s]+/ at index i, for the first of `names` (in the order of
\* the alternation) that fits: [last |-> last index of $1, end |-> last index
\* of the match], or end = 0
UrlParamMatch(names, t, i) ==
  LET fits == {n \in 1..Len(names) :
                 /\ OccursAt(t, names[n], i + 1)
                 /\ i + Len(names[n]) + 1 <= Len(t)
                 /\ UrlValueChar(t[i + Len(names[n]) + 1])}
      n == Min(fits)
      last == i + Len(names[n])
      valEnd == Max({j \in (last + 1)..Len(t) :
                       \A k \in (last + 1)..j : UrlValueChar(t[k])})
  IN IF i >= 1 /\ i <= Len(t) /\ t[i] \in {"?", "&"} /\ fits # {}
     THEN [last |-> last, end |-> valEnd]
     ELSE [last |-> 0, end |-> 0]

NextUrlParamStart(names, t, pos) ==
  LET starts == {i \in pos..Len(t) : UrlParamMatch(names, t, i).end # 0}
  IN IF starts = {} THEN 0 ELSE Min(starts)

\* text.replace(regex, '$1[REDACTED]') from index pos on
RECURSIVE redactParamsFrom(_, _, _)
redactParamsFrom(names, t, pos) ==
  With(NextUrlParamStart(names, t, pos), LAMBDA i :
    IF i = 0
    THEN SubSeq(t, pos, Len(t))
    ELSE With(UrlParamMatch(names, t, i), LAMBDA m :
           SubSeq(t, pos, m.last) \o Redacted
             \o redactParamsFrom(names, t, m.end + 1)))

filterSensitiveUrls(t) ==
  With(redactParamsFrom(<<EmailParam>>, t, 1), LAMBDA filtered :
    redactParamsFrom(UserIdParams, filtered, 1))

\* ---------------------------------------------------------------- values
\* A JavaScript value: null, undefined, a string, a number, a boolean, an
\* object (its own enumerable properties in order) or an array.

Null == [ty |-> "null"]

Undefined == [ty |-> "undefined"]

Str(s) == [ty |-> "string", s |-> s]

Num(n) == [ty |-> "number", n |-> n]

Bool(b) == [ty |-> "boolean", b |-> b]

Prop(k, v) == [k |-> k, v |-> v]

Obj(props) == [ty |-> "object", props |-> props]

Arr(items) == [ty |-> "array", items |-> items]

\* !v
Falsy(v) ==
  \/ v.ty \in {"null", "undefined"}
  \/ v.ty = "string" /\ v.s = <<>>
  \/ v.ty = "number" /\ v.n = 0
  \/ v.ty = "boolean" /\ ~v.b

\* ------------------------------------------------------------- filterText
\* The result of a call: [val |-> the value returned, same |-> the return
\* statement hands back the argument itself, exc |-> "none" or the exception
\* that left the call (then nothing is returned), f |-> the filter afterwards].

Returned(v, same, f) == [val |-> v, same |-> same, exc |-> "none", f |-> f]

Thrown(e, f) == [val |-> Undefined, same |-> FALSE, exc |-> e, f |-> f]

\* scrubText with the URL pass made only when email detection is on
scrubTextUrlsGated(text, f) ==
  IF text.ty # "string"
  THEN Thrown("TypeError", f)
  ELSE With(IF f.anonymizeEmails
            THEN filterEmails(text.s, f)
            ELSE [out |-> text.s, f |-> f], LAMBDA r1 :
       With(IF f.anonymizePhone
            THEN filterPhoneNumbers(r1.out, r1.f)
            ELSE r1, LAMBDA r2 :
         Returned(Str(IF f.anonymizeEmails
                      THEN filterSensitiveUrls(r2.out) ELSE r2.out),
                  FALSE, r2.f)))

\* The passes of filterText over a truthy text.  A value that is no string
\* has no replace method.
scrubText(text, f) ==
  IF text.ty # "string"
  THEN Thrown("TypeError", f)
  ELSE With(IF f.anonymizeEmails
            THEN filterEmails(text.s, f)
            ELSE [out |-> text.s, f |-> f], LAMBDA r1 :
       With(IF f.anonymizePhone
            THEN filterPhoneNumbers(r1.out, r1.f)
            ELSE r1, LAMBDA r2 :
         Returned(Str(filterSensitiveUrls(r2.out)), FALSE, r2.f)))

\* filterText without the test of this.enabled
filterTextNoSwitch(text, f) ==
  IF Falsy(text) THEN Returned(text, TRUE, f) ELSE scrubText(text, f)

\* filterText(text)
filterText(text, f) ==
  IF ~f.enabled \/ Falsy(text)
  THEN Returned(text, TRUE, f)
  ELSE scrubText(text, f)

\* ------------------------------------------- anonymizeName, anonymizeCompany

\* `Participant ${n}`
ParticipantLabel(n) ==
  <<"P", "a", "r", "t", "i", "c", "i", "p", "a", "n", "t", " ">> \o DecStr(n)

\* anonymizeName without the test of !name
anonymizeNameAnyValue(name, f) ==
  IF ~f.enabled \/ ~f.anonymizeNames
  THEN Returned(name, TRUE, f)
  ELSE LET n == f.counters.name + 1
           lab == ParticipantLabel(n)
       IN Returned(Str(lab), FALSE,
                   [f EXCEPT !.counters.name = n,
                             !.issued.name = Append(@, lab)])

\* anonymizeName that numbers the label without storing the new count
anonymizeNameNoIncrement(name, f) ==
  IF ~f.enabled \/ ~f.anonymizeNames \/ Falsy(name)
  THEN Returned(name, TRUE, f)
  ELSE LET lab == ParticipantLabel(f.counters.name + 1)
       IN Returned(Str(lab), FALSE, [f EXCEPT !.issued.name = Append(@, lab)])

anonymizeName(name, f) ==
  IF ~f.enabled \/ ~f.anonymizeNames \/ Falsy(name)
  THEN Returned(name, TRUE, f)
  ELSE LET n == f.counters.name + 1
           lab == ParticipantLabel(n)
       IN Returned(Str(lab), FALSE,
                   [f EXCEPT !.counters.name = n,
                             !.issued.name = Append(@, lab)])

KwEnterprise == <<"e", "n", "t", "e", "r", "p", "r", "i", "s", "e">>

KwCorp == <<"c", "o", "r", "p">>

KwStartup == <<"s", "t", "a", "r", "t", "u", "p">>

\* 'Enterprise Client ', 'Startup Client ', 'Company '
LabelEnterprise == <<"E", "n", "t", "e", "r", "p", "r", "i", "s", "e", " ", "C", "l", "i", "e", "n", "t", " ">>

LabelStartup == <<"S", "t", "a", "r", "t", "u", "p", " ", "C", "l", "i", "e", "n", "t", " ">>

LabelCompany == <<"C", "o", "m", "p", "a", "n", "y", " ">>

\* CompanyLabel with 'startup' tested before 'enterprise' and 'corp'
CompanyLabelStartupFirst(company, n) ==
  LET low == toLowerCase(company)
  IN IF includes(low, KwStartup)
     THEN LabelStartup \o DecStr(n)
     ELSE IF includes(low, KwEnterprise) \/ includes(low, KwCorp)
     THEN LabelEnterprise \o DecStr(n)
     ELSE LabelCompany \o DecStr(n)

\* CompanyLabel without the test for 'corp'
CompanyLabelEnterpriseOnly(company, n) ==
  LET low == toLowerCase(company)
  IN IF includes(low, KwEnterprise)
     THEN LabelEnterprise \o DecStr(n)
     ELSE IF includes(low, KwStartup)
     THEN LabelStartup \o DecStr(n)
     ELSE LabelCompany \o DecStr(n)

\* the three labels of anonymizeCompany, by the lower-cased name
CompanyLabel(company, n) ==
  LET low == toLowerCase(company)
  IN IF includes(low, KwEnterprise) \/ includes(low, KwCorp)
     THEN LabelEnterprise \o DecStr(n)
     ELSE IF includes(low, KwStartup)
     THEN LabelStartup \o DecStr(n)
     ELSE LabelCompany \o DecStr(n)

\* The counter is incremented before company.toLowerCase() is called, which a
\* truthy argument that is no string does not have.
anonymizeCompany(company, f) ==
  IF ~f.enabled \/ Falsy(company)
  THEN Returned(company, TRUE, f)
  ELSE LET n == f.counters.company + 1
       IN IF company.ty # "string"
          THEN Thrown("TypeError", [f EXCEPT !.counters.company = n])
          ELSE LET lab == CompanyLabel(company.s, n)
               IN Returned(Str(lab), FALSE,
                           [f EXCEPT !.counters.company = n,
                                     !.issued.company = Append(@, lab)])

\* ------------------------------------------------------------ filterObject

safeFields ==
  { <<"i", "d">>, <<"u", "u", "i", "d">>, <<"g", "u", "i", "d">>,
    <<"s", "e", "l", "f">>, <<"h", "t", "m", "l">>, <<"u", "r", "l">>,
    <<"h", "r", "e", "f">>, <<"l", "i", "n", "k">>,
    <<"c", "r", "e", "a", "t", "e", "d", "a", "t">>,
    <<"u", "p", "d", "a", "t", "e", "d", "a", "t">>,
    <<"d", "e", "l", "e", "t", "e", "d", "a", "t">>,
    <<"t", "i", "m", "e", "s", "t", "a", "m", "p">>, <<"d", "a", "t", "e">>,
    <<"t", "y", "p", "e">>, <<"s", "t", "a", "t", "u", "s">>,
    <<"s", "t", "a", "t", "e">>, <<"r", "o", "l", "e">>,
    <<"a", "r", "c", "h", "i", "v", "e", "d">>,
    <<"g", "r", "a", "n", "u", "l", "a", "r", "i", "t", "y">>,
    <<"s", "t", "a", "r", "t", "d", "a", "t", "e">>,
    <<"e", "n", "d", "d", "a", "t", "e">>,
    <<"t", "i", "m", "e", "f", "r", "a", "m", "e">>,
    <<"c", "o", "d", "e">>, <<"k", "e", "y">> }

emailKeys ==
  { <<"e", "m", "a", "i", "l">>,
    <<"e", "m", "a", "i", "l", "_", "a", "d", "d", "r", "e", "s", "s">>,
    <<"u", "s", "e", "r", "_", "e", "m", "a", "i", "l">> }

phoneKeys ==
  { <<"p", "h", "o", "n", "e">>,
    <<"p", "h", "o", "n", "e", "_", "n", "u", "m", "b", "e", "r">>,
    <<"m", "o", "b", "i", "l", "e">> }

nameKeys ==
  { <<"n", "a", "m", "e">>, <<"f", "u", "l", "l", "_", "n", "a", "m", "e">>,
    <<"d", "i", "s", "p", "l", "a", "y", "_", "n", "a", "m", "e">>,
    <<"u", "s", "e", "r", "_", "n", "a", "m", "e">>,
    <<"c", "u", "s", "t", "o", "m", "e", "r", "_", "n", "a", "m", "e">> }

companyKeys ==
  { <<"c", "o", "m", "p", "a", "n", "y">>,
    <<"c", "o", "m", "p", "a", "n", "y", "_", "n", "a", "m", "e">>,
    <<"o", "r", "g", "a", "n", "i", "z", "a", "t", "i", "o", "n">> }

\* A field-rule table is a sequence of [k |-> key, rule |-> function]; a rule
\* function is one of
\*   [kind |-> "keep"]       (value) => value
\*   [kind |-> "company"]    (value, filter) => filter.anonymizeCompany(value)
\*   [kind |-> "name"]       (value, filter) => filter.anonymizeName(value)
\*   [kind |-> "text"]       (value, filter) => filter.filterText(value)
\*   [kind |-> "const", s]   (value) => '<s>'
\*   [kind |-> "throw"]      (value) => { throw new Error(...) }
\*   [kind |-> "body"]       the rule of filterPageData for body
\*   [kind |-> "author"]     the rule of filterPageData for createdBy and
\*                           lastModifiedBy
\* The table is a plain object ({} by default), so fieldRules[key] also finds
\* what Object.prototype has under that name:
\*   [kind |-> "inherited", name]   Object.prototype[name]
NoRule == [kind |-> "none"]

kConstructor == <<"c", "o", "n", "s", "t", "r", "u", "c", "t", "o", "r">>

kToString == <<"t", "o", "S", "t", "r", "i", "n", "g">>

kValueOf == <<"v", "a", "l", "u", "e", "O", "f">>

kHasOwnProperty == <<"h", "a", "s", "O", "w", "n", "P", "r", "o", "p", "e", "r", "t", "y">>

kProto == <<"_", "_", "p", "r", "o", "t", "o", "_", "_">>

\* the names Object.prototype answers to that the model follows
ObjectPrototypeKeys == {kConstructor, kToString, kValueOf, kHasOwnProperty, kProto}

\* the own keys of the table
OwnKeys(rules) == {rules[n].k : n \in 1..Len(rules)}

\* fieldRules[key]: the entry of the table for exactly this key, else what the
\* prototype of the table has under this key, else NoRule (undefined)
RuleFor(rules, key) ==
  IF key \in OwnKeys(rules)
  THEN rules[CHOOSE n \in 1..Len(rules) : rules[n].k = key].rule
  ELSE IF key \in ObjectPrototypeKeys
  THEN [kind |-> "inherited", name |-> key]
  ELSE NoRule

\* Object.prototype[name] called as fieldRules[name](value, filter): Object(value)
\* boxes the string; toString gives '[object Object]'; valueOf gives the table;
\* hasOwnProperty(value) tells whether value names an entry; __proto__ is the
\* prototype object itself, which is no function.
CallInherited(name, rules, value, g) ==
  CASE name = kConstructor ->
         Returned([ty |-> "String", s |-> value.s], FALSE, g)
    [] name = kToString ->
         Returned(Str(<<"[", "o", "b", "j", "e", "c", "t", " ", "O", "b", "j", "e", "c", "t", "]">>), FALSE, g)
    [] name = kValueOf ->
         Returned([ty |-> "fieldRules", keys |-> OwnKeys(rules)], FALSE, g)
    [] name = kHasOwnProperty ->
         Returned(Bool(value.s \in OwnKeys(rules)), FALSE, g)
    [] OTHER -> Thrown("TypeError", g)

kDisplayName == <<"d", "i", "s", "p", "l", "a", "y", "N", "a", "m", "e">>

kEmail == <<"e", "m", "a", "i", "l">>

\* (value, filter) => ({...value, displayName:
\* filter.anonymizeName(value.displayName), email: '[REDACTED_EMAIL]'}) on a
\* string value, the only kind filterObject hands to a rule: the spread gives
\* the characters under their indices, and value.displayName is undefined
AuthorRule(value, g) ==
  With(anonymizeName(Undefined, g), LAMBDA r :
    Returned(Obj([i \in 1..Len(value.s) |->
                    Prop(DecStr(i - 1), Str(<<value.s[i]>>))]
                 \o <<Prop(kDisplayName, r.val),
                      Prop(kEmail, Str(<<"[", "R", "E", "D", "A", "C", "T", "E", "D", "_", "E", "M", "A", "I", "L", "]">>))>>),
             FALSE, r.f))

\* CallRule with the rule run on a copy of the filter: what it counts is lost
CallRuleOnCopy(rule, key, value, rules, f) ==
  LET g == [f EXCEPT !.ruleCalls = Append(@, [k |-> key, arg |-> value])]
      r == CASE rule.kind = "keep" -> Returned(value, TRUE, g)
             [] rule.kind = "company" -> anonymizeCompany(value, g)
             [] rule.kind = "name" -> anonymizeName(value, g)
             [] rule.kind = "text" -> filterText(value, g)
             [] rule.kind = "const" -> Returned(Str(rule.s), FALSE, g)
             [] rule.kind = "body" -> Returned(value, TRUE, g)
             [] rule.kind = "author" -> AuthorRule(value, g)
             [] rule.kind = "inherited" ->
                  CallInherited(rule.name, rules, value, IF rule.name = kProto THEN f ELSE g)
             [] OTHER -> Thrown("Error", g)
  IN [r EXCEPT !.f = IF rule.kind = "inherited" /\ rule.name = kProto THEN f ELSE g]

\* fieldRules[key](value, this): the rule runs on the live filter.  The body
\* rule returns a value without value.storage (every string) as it is.
CallRule(rule, key, value, rules, f) ==
  LET g == [f EXCEPT !.ruleCalls = Append(@, [k |-> key, arg |-> value])]
  IN CASE rule.kind = "keep" -> Returned(value, TRUE, g)
       [] rule.kind = "company" -> anonymizeCompany(value, g)
       [] rule.kind = "name" -> anonymizeName(value, g)
       [] rule.kind = "text" -> filterText(value, g)
       [] rule.kind = "const" -> Returned(Str(rule.s), FALSE, g)
       [] rule.kind = "body" -> Returned(value, TRUE, g)
       [] rule.kind = "author" -> AuthorRule(value, g)
       [] rule.kind = "inherited" ->
            CallInherited(rule.name, rules, value, IF rule.name = kProto THEN f ELSE g)
       [] OTHER -> Thrown("Error", g)

\* The direct replacement of a value under an email-like key
KeyedEmail(f) ==
  With(IssueEmail(f), LAMBDA cb : Returned(Str(cb.tok), FALSE, cb.f))

\* The direct replacement of a value under a phone-like key
KeyedPhone(f) ==
  With(IssuePhone(f), LAMBDA cb : Returned(Str(cb.tok), FALSE, cb.f))

\* filterStringField with the rule table consulted before the allowlist
filterStringFieldRuleFirst(key, value, rules, f) ==
  LET low == toLowerCase(key)
  IN IF RuleFor(rules, key) # NoRule
     THEN CallRule(RuleFor(rules, key), key, value, rules, f)
     ELSE IF low \in safeFields THEN Returned(value, TRUE, f)
     ELSE IF low \in emailKeys THEN KeyedEmail(f)
     ELSE IF low \in phoneKeys THEN KeyedPhone(f)
     ELSE IF low \in nameKeys THEN anonymizeName(value, f)
     ELSE IF low \in companyKeys THEN anonymizeCompany(value, f)
     ELSE filterText(value, f)

\* filterStringField with safeFields.includes(key), the key not lower-cased
filterStringFieldCaseSensitive(key, value, rules, f) ==
  LET low == toLowerCase(key)
  IN IF key \in safeFields THEN Returned(value, TRUE, f)
     ELSE IF RuleFor(rules, key) # NoRule
     THEN CallRule(RuleFor(rules, key), key, value, rules, f)
     ELSE IF low \in emailKeys THEN KeyedEmail(f)
     ELSE IF low \in phoneKeys THEN KeyedPhone(f)
     ELSE IF low \in nameKeys THEN anonymizeName(value, f)
     ELSE IF low \in companyKeys THEN anonymizeCompany(value, f)
     ELSE filterText(value, f)

\* filterStringField without the email-like and phone-like key branches
filterStringFieldNoKeyedTokens(key, value, rules, f) ==
  LET low == toLowerCase(key)
  IN IF low \in safeFields THEN Returned(value, TRUE, f)
     ELSE IF RuleFor(rules, key) # NoRule
     THEN CallRule(RuleFor(rules, key), key, value, rules, f)
     ELSE IF low \in nameKeys THEN anonymizeName(value, f)
     ELSE IF low \in companyKeys THEN anonymizeCompany(value, f)
     ELSE filterText(value, f)

\* filterStringField with the key-name branches tried before the rule table
filterStringFieldKeysFirst(key, value, rules, f) ==
  LET low == toLowerCase(key)
  IN IF low \in safeFields THEN Returned(value, TRUE, f)
     ELSE IF low \in emailKeys THEN KeyedEmail(f)
     ELSE IF low \in phoneKeys THEN KeyedPhone(f)
     ELSE IF low \in nameKeys THEN anonymizeName(value, f)
     ELSE IF low \in companyKeys THEN anonymizeCompany(value, f)
     ELSE IF RuleFor(rules, key) # NoRule
     THEN CallRule(RuleFor(rules, key), key, value, rules, f)
     ELSE filterText(value, f)

\* filterStringField with an empty string stored as it is under every key
filterStringFieldSkippingEmpty(key, value, rules, f) ==
  LET low == toLowerCase(key)
  IN IF Falsy(value) \/ low \in safeFields THEN Returned(value, TRUE, f)
     ELSE IF RuleFor(rules, key) # NoRule
     THEN CallRule(RuleFor(rules, key), key, value, rules, f)
     ELSE IF low \in emailKeys THEN KeyedEmail(f)
     ELSE IF low \in phoneKeys THEN KeyedPhone(f)
     ELSE IF low \in nameKeys THEN anonymizeName(value, f)
     ELSE IF low \in companyKeys THEN anonymizeCompany(value, f)
     ELSE filterText(value, f)

\* The if / else-if chain for a string value under `key`
filterStringField(key, value, rules, f) ==
  LET low == toLowerCase(key)
  IN IF low \in safeFields THEN Returned(value, TRUE, f)
     ELSE IF RuleFor(rules, key) # NoRule
     THEN CallRule(RuleFor(rules, key), key, value, rules, f)
     ELSE IF low \in emailKeys THEN KeyedEmail(f)
     ELSE IF low \in phoneKeys THEN KeyedPhone(f)
     ELSE IF low \in nameKeys THEN anonymizeName(value, f)
     ELSE IF low \in companyKeys THEN anonymizeCompany(value, f)
     ELSE filterText(value, f)

\* for (const key in obj): the keys of obj with obj[key], in order.  An array
\* and a string have their indices as keys; a number or boolean has none.
Entries(obj) ==
  CASE obj.ty = "object" -> obj.props
    [] obj.ty = "array" ->
         [i \in 1..Len(obj.items) |-> Prop(DecStr(i - 1), obj.items[i])]
    [] obj.ty = "string" ->
         [i \in 1..Len(obj.s) |-> Prop(DecStr(i - 1), Str(<<obj.s[i]>>))]
    [] OTHER -> <<>>

RECURSIVE filterObject(_, _, _)
RECURSIVE filterEntries(_, _, _, _)

\* filterProperty with the recursive call made without the rule table
filterPropertyRulesDropped(key, value, rules, f) ==
  IF ~Falsy(value) /\ value.ty \in {"object", "array"}
  THEN filterObject(value, <<>>, f)
  ELSE IF value.ty = "string"
  THEN filterStringField(key, value, rules, f)
  ELSE Returned(value, TRUE, f)

\* filterProperty with the rule table consulted for a number, boolean or null
filterPropertyRuleForScalars(key, value, rules, f) ==
  IF ~Falsy(value) /\ value.ty \in {"object", "array"}
  THEN filterObject(value, rules, f)
  ELSE IF value.ty = "string"
  THEN filterStringField(key, value, rules, f)
  ELSE IF RuleFor(rules, key) # NoRule
  THEN CallRule(RuleFor(rules, key), key, value, rules, f)
  ELSE Returned(value, TRUE, f)

\* One turn of the loop: what is assigned to filtered[key]
filterProperty(key, value, rules, f) ==
  IF ~Falsy(value) /\ value.ty \in {"object", "array"}
  THEN filterObject(value, rules, f)
  ELSE IF value.ty = "string"
  THEN filterStringField(key, value, rules, f)
  ELSE Returned(value, TRUE, f)

\* filtered[key] = v: a new own property, except that the key __proto__ names
\* the prototype accessor, which creates none
Assigned(key, v) == IF key = kProto THEN <<>> ELSE <<Prop(key, v)>>

\* filterEntries with a try / catch around each turn: a key whose turn raises
\* is left out and the loop goes on
filterEntriesCatching(es, i, rules, f) ==
  IF i > Len(es)
  THEN [props |-> <<>>, exc |-> "none", f |-> f]
  ELSE With(filterProperty(es[i].k, es[i].v, rules, f), LAMBDA one :
       With(filterEntries(es, i + 1, rules, one.f), LAMBDA rest :
         [props |-> (IF one.exc # "none" THEN <<>>
                     ELSE Assigned(es[i].k, one.val)) \o rest.props,
          exc |-> rest.exc, f |-> rest.f]))

\* The loop from the i-th key on: [props |-> what it assigned, exc, f]
filterEntries(es, i, rules, f) ==
  IF i > Len(es)
  THEN [props |-> <<>>, exc |-> "none", f |-> f]
  ELSE With(filterProperty(es[i].k, es[i].v, rules, f), LAMBDA one :
         IF one.exc # "none"
         THEN [props |-> <<>>, exc |-> one.exc, f |-> one.f]
         ELSE With(filterEntries(es, i + 1, rules, one.f), LAMBDA rest :
                [props |-> Assigned(es[i].k, one.val) \o rest.props,
                 exc |-> rest.exc, f |-> rest.f]))

\* filterObject(obj, fieldRules): the new container is an array exactly when
\* obj is one.
filterObject(obj, rules, f) ==
  IF ~f.enabled \/ Falsy(obj)
  THEN Returned(obj, TRUE, f)
  ELSE With(filterEntries(Entries(obj), 1, rules, f), LAMBDA r :
         IF r.exc # "none"
         THEN Thrown(r.exc, r.f)
         ELSE Returned(IF obj.ty = "array"
                       THEN Arr([i \in 1..Len(r.props) |-> r.props[i].v])
                       ELSE Obj(r.props),
                       FALSE, r.f))

\* ------------------------------------------- ConfluenceClient.filterPageData

kId == <<"i", "d">>

kCreatedBy == <<"c", "r", "e", "a", "t", "e", "d", "B", "y">>

kLastModifiedBy == <<"l", "a", "s", "t", "M", "o", "d", "i", "f", "i", "e", "d", "B", "y">>

kAuthorId == <<"a", "u", "t", "h", "o", "r", "I", "d">>

\* the fieldRules of filterPageData, in the order of the object literal
PageRules ==
  LET keep == [kind |-> "keep"]
      userId == [kind |-> "const",
                 s |-> <<"[", "R", "E", "D", "A", "C", "T", "E", "D", "_", "U", "S", "E", "R", "_", "I", "D", "]">>]
  IN << [k |-> kId, rule |-> keep],
        [k |-> <<"t", "i", "t", "l", "e">>, rule |-> keep],
        [k |-> <<"s", "p", "a", "c", "e", "I", "d">>, rule |-> keep],
        [k |-> <<"s", "t", "a", "t", "u", "s">>, rule |-> keep],
        [k |-> <<"_", "l", "i", "n", "k", "s">>, rule |-> keep],
        [k |-> <<"w", "e", "b", "u", "i">>, rule |-> keep],
        [k |-> <<"v", "e", "r", "s", "i", "o", "n">>, rule |-> keep],
        [k |-> <<"b", "o", "d", "y">>, rule |-> [kind |-> "body"]],
        [k |-> kAuthorId, rule |-> userId],
        [k |-> <<"o", "w", "n", "e", "r", "I", "d">>, rule |-> userId],
        [k |-> kCreatedBy, rule |-> [kind |-> "author"]],
        [k |-> kLastModifiedBy, rule |-> [kind |-> "author"]] >>

\* filterPageData(page), on the client's filter
filterPageData(page, f) == filterObject(page, PageRules, f)

\* ----------------------------------------------------------------- inputs
\* The values the callers pass.  MaxCalls bounds the number of calls made on
\* one instance whose outcome is followed (the filtering calls, and getStats
\* when its value is kept), MaxDepth the number of containers put around
\* an object.

MaxCalls == 2

MaxDepth == 2

tEmail == <<"a", "@", "b", ".", "c", "o">>

tPhone == <<"5", "5", "5", "-", "1", "2", "3", "-", "4", "5", "6", "7">>

tHi == <<"h", "i">>

tAcme == <<"A", "c", "m", "e", " ", "C", "o", "r", "p">>

\* 'u?userId=1&user_id=2 k'
tUserIds == <<"u", "?", "u", "s", "e", "r", "I", "d", "=", "1", "&", "u", "s", "e", "r", "_", "i", "d", "=", "2", " ", "k">>

\* '+44 20 7946 0958' and '+1 234 567 8900', the examples at the pattern
tIntlUk == <<"+", "4", "4", " ", "2", "0", " ", "7", "9", "4", "6", " ", "0", "9", "5", "8">>

tIntlUs == <<"+", "1", " ", "2", "3", "4", " ", "5", "6", "7", " ", "8", "9", "0", "0">>

\* the UUID of the phone tests, and one whose groups are all digits
tUuid == <<"1", "2", "3", "e", "4", "5", "6", "7", "-", "e", "8", "9", "b", "-", "1", "2", "d", "3", "-", "a", "4", "5", "6", "-", "4", "2", "6", "6", "1", "4", "1", "7", "4", "0", "0", "0">>

tUuidDigits == <<"1", "2", "3", "4", "5", "6", "7", "8", "-", "1", "2", "3", "4", "-", "1", "2", "3", "4", "-", "1", "2", "3", "4", "-", "1", "2", "3", "4", "5", "6", "7", "8", "9", "0", "1", "2">>

Texts ==
  { Str(tEmail),
    Str(<<"a", "@", "b", ".", "c", "o", " ", "a", "@", "b", ".", "c", "o">>),            \* the same address twice
    Str(<<"a", "@", "b", ".", "c", "o", " ", "o", "r", " ", "5", "5", "5", "-", "1", "2", "3", "-", "4", "5", "6", "7">>),           \* the end-to-end scenario
    Str(tHi),
    Str(<<"x", "?", "e", "m", "a", "i", "l", "=", "a", "@", "b", ".", "c", "o">>),        \* an email as a query parameter
    Str(<<"x", "?", "u", "i", "d", "=", "7", "&", "a", "@", "b", ".", "c", "o">>),
    Str(<<"a", "@", "b", ".", "c", "o", "1", " ", "a", "@", "b", ".", "c", "o">>),         \* an address inside a longer, unmatched string
    Str(<<"[", "E", "M", "A", "I", "L", "_", "7", "]", " ", "a", "@", "b", ".", "c", "o">>),         \* a text that already holds a token
    Str(tUserIds),
    Str(tIntlUk),
    Str(<<"c", "a", "l", "l", " ">> \o tIntlUs),
    Str(tUuid),
    Str(tUuidDigits),
    Str(<<"x", "?", "u", "i", "d", "=">> \o tUuid),         \* a UUID as a user id parameter
    Str(<<"a">> \o tIntlUk \o <<" ">> \o tPhone),  \* second pattern left of first
    Str(tPhone \o <<"@", "b", ".", "c", "o">>) }   \* a phone number as local part

FalsyArgs == {Null, Undefined, Str(<<>>)}

Names == {Str(<<"A", "l">>)}

tStartupCorp == <<"S", "t", "a", "r", "t", "u", "p", " ", "C", "o", "r", "p">>

Companies ==
  { Str(tAcme),
    Str(<<"M", "y", " ", "S", "t", "a", "r", "t", "u", "p">>),
    Str(<<"I", "n", "i", "t", "e", "c", "h">>),
    Str(tStartupCorp) }       \* both 'startup' and 'corp'

kUser == <<"u", "s", "e", "r">>

kCreatedAt == <<"c", "r", "e", "a", "t", "e", "d", "A", "t">>

kEmailCap == <<"E", "m", "a", "i", "l">>

kPhone == <<"p", "h", "o", "n", "e">>

kCustomerName == <<"c", "u", "s", "t", "o", "m", "e", "r", "_", "n", "a", "m", "e">>

kNote == <<"n", "o", "t", "e">>

\* one string value under one key
Leaf(k, s) == Obj(<<Prop(k, Str(s))>>)

LeafObjects ==
  { Leaf(kCreatedAt, tEmail),        \* safe key, value that looks like PII
    Leaf(kId, tPhone),               \* safe key, ruled in RuleTable
    Leaf(kEmailCap, <<>>),           \* email-like key, empty value
    Leaf(kPhone, tEmail),            \* phone-like key, value that is an email
    Leaf(kCustomerName, tAcme),      \* name-like key, ruled in RuleTable
    Leaf(kNote, tEmail) }            \* any other key, ruled in RuleTable

\* {user: v} and [v]
WrapObj(v) == Obj(<<Prop(kUser, v)>>)

WrapArr(v) == Arr(<<v>>)

\* d containers around v, objects and arrays in turn, the outermost an object
RECURSIVE WrapN(_, _)
WrapN(d, v) ==
  IF d = 0 THEN v
  ELSE WrapN(d - 1, IF d % 2 = 1 THEN WrapObj(v) ELSE WrapArr(v))

\* the rule table of a caller (the tests and the Confluence client pass such
\* tables): a rule for a safe key, one for a name-like key, one for a free key
RuleTable ==
  << [k |-> kId, rule |-> [kind |-> "const", s |-> <<"X">>]],
     [k |-> kCustomerName, rule |-> [kind |-> "company"]],
     [k |-> kNote, rule |-> [kind |-> "keep"]] >>

RuledKeys == {RuleTable[n].k : n \in 1..Len(RuleTable)}

MixedObjects ==
  { Obj(<<>>),
    Obj(<<Prop(kId, Str(<<"x">>)), Prop(kEmail, Str(tEmail))>>),
    Arr(<<Leaf(kEmail, tEmail), Leaf(kEmail, tEmail)>>) }

kCount == <<"c", "o", "u", "n", "t">>

kDone == <<"d", "o", "n", "e">>

kGone == <<"g", "o", "n", "e">>

\* {count: 3, done: false, gone: null, user: [0, 'hi']}
Scalars ==
  Obj(<<Prop(kCount, Num(3)), Prop(kDone, Bool(FALSE)), Prop(kGone, Null),
        Prop(kUser, Arr(<<Num(0), Str(tHi)>>))>>)

\* a table with a rule that throws for each key of Scalars
ScalarTable ==
  [n \in 1..Len(Scalars.props) |->
     [k |-> Scalars.props[n].k, rule |-> [kind |-> "throw"]]]

\* values of every JSON kind, and keys that Object.prototype knows
ShapeObjects ==
  { Scalars,
    Leaf(kProto, tHi),
    Obj(<<Prop(kProto, Num(3)), Prop(kNote, Str(tHi))>>),
    Leaf(kConstructor, tEmail) }

\* a table whose rule for note throws
ThrowTable == << [k |-> kNote, rule |-> [kind |-> "throw"]] >>

\* {email: 'a@b.co', note: 'hi', phone: '555-123-4567'}
ThreeFields ==
  Obj(<<Prop(kEmail, Str(tEmail)), Prop(kNote, Str(tHi)),
        Prop(kPhone, Str(tPhone))>>)

tAl == <<"A", "l">>

\* the pages given to filterPageData: the page of the author-fields test
\* (shortened), one whose lastModifiedBy is an object, one whose createdBy is
\* a string
Pages ==
  { Obj(<<Prop(kId, Str(<<"7">>)), Prop(kAuthorId, Str(<<"u", "1">>)),
          Prop(kCreatedBy,
               Obj(<<Prop(kDisplayName, Str(tAl)), Prop(kEmail, Str(tEmail))>>))>>),
    Obj(<<Prop(kLastModifiedBy, Leaf(kDisplayName, tAl))>>),
    Leaf(kCreatedBy, tAl) }

\* {email: '', phone: '', customer_name: '', organization: '', note: '', id: ''}
EmptyFields ==
  Obj(<<Prop(kEmail, Str(<<>>)), Prop(kPhone, Str(<<>>)),
        Prop(kCustomerName, Str(<<>>)),
        Prop(<<"o", "r", "g", "a", "n", "i", "z", "a", "t", "i", "o", "n">>, Str(<<>>)),
        Prop(kNote, Str(<<>>)), Prop(kId, Str(<<>>))>>)

\* a rule that re-enters the filter between two keyed replacements:
\* [{email: 'a@b.co'}, {note: 'a@b.co'}, {email: 'a@b.co'}] with
\* {note: (value, filter) => filter.filterText(value)}
ReentrantCall ==
  [obj |-> Arr(<<Leaf(kEmail, tEmail), Leaf(kNote, tEmail), Leaf(kEmail, tEmail)>>),
   rules |-> << [k |-> kNote, rule |-> [kind |-> "text"]] >>]

\* what filterObject is called with: [obj, rules]
ObjectCalls ==
  {[obj |-> o, rules |-> <<>>] :
     o \in FalsyArgs \cup MixedObjects \cup ShapeObjects \cup {EmptyFields}}
    \cup {[obj |-> o, rules |-> <<>>] : o \in {Str(tEmail), Num(42), Bool(TRUE)}}
    \cup {[obj |-> Scalars, rules |-> ScalarTable], ReentrantCall,
          [obj |-> Leaf(kCustomerName, tEmail), rules |-> <<>>]}
    \cup {[obj |-> WrapN(d, ThreeFields), rules |-> ThrowTable] :
            d \in 0..MaxDepth}
    \cup {[obj |-> WrapN(d, o), rules |-> <<>>] :
            d \in 0..MaxDepth, o \in LeafObjects}
    \cup {[obj |-> WrapN(d, o), rules |-> RuleTable] :
            d \in 0..MaxDepth,
            o \in {x \in LeafObjects : x.props[1].k \in RuledKeys}}

\* ------------------------------------------------------------------ state

VARIABLES
  enabled,          \* this.enabled
  anonymizeEmails,  \* this.anonymizeEmails
  anonymizeNames,   \* this.anonymizeNames
  anonymizePhone,   \* this.anonymizePhone
  counters,         \* this.counters
  issued,           \* per category, the placeholders issued since the counters
                    \* were last zero, in order
  last,             \* the last call made on the filter and what it returned
  calls,            \* the number of filtering calls made so far
  stats             \* the value of the latest getStats() that a caller holds

vars ==
  <<enabled, anonymizeEmails, anonymizeNames, anonymizePhone,
    counters, issued, last, calls, stats>>

toggles == <<enabled, anonymizeEmails, anonymizeNames, anonymizePhone>>

ZeroCounters == [email |-> 0, name |-> 0, phone |-> 0, company |-> 0]

NoneIssued == [email |-> <<>>, name |-> <<>>, phone |-> <<>>, company |-> <<>>]

\* the filter instance as the methods see it
This ==
  [enabled |-> enabled, anonymizeEmails |-> anonymizeEmails,
   anonymizeNames |-> anonymizeNames, anonymizePhone |-> anonymizePhone,
   counters |-> counters, issued |-> issued, ruleCalls |-> <<>>]

\* whether the call before was resetCounters, and the counters it cleared
Previous ==
  IF last.op = "resetCounters"
  THEN [reset |-> TRUE, cleared |-> last.fb.counters]
  ELSE [reset |-> FALSE, cleared |-> ZeroCounters]

\* what is kept of a call: the method, its arguments, the filter before it,
\* the outcome and the rule calls it made
Called(op, arg, rules, r) ==
  [op |-> op, arg |-> arg, rules |-> rules, fb |-> This, prev |-> Previous,
   val |-> r.val, same |-> r.same, exc |-> r.exc, ruleCalls |-> r.f.ruleCalls]

\* no stats value held yet
NoStats ==
  [held |-> FALSE, live |-> FALSE, enabled |-> FALSE,
   itemsFiltered |-> ZeroCounters, atCall |-> ZeroCounters]

\* The stats value a caller holds after the filter's counters became c by
\* this.counters.<category>++: its itemsFiltered is that same object as long as
\* resetCounters has not replaced this.counters (live).
StatsAfterIncrements(c) ==
  IF stats.held /\ stats.live THEN [stats EXCEPT !.itemsFiltered = c] ELSE stats

\* new PIIFilter(): each flag is on unless its environment variable is 'false'
Init ==
  /\ enabled \in BOOLEAN
  /\ anonymizeEmails \in BOOLEAN
  /\ anonymizeNames \in BOOLEAN
  /\ anonymizePhone \in BOOLEAN
  /\ counters = ZeroCounters
  /\ issued = NoneIssued
  /\ last = [op |-> "new", arg |-> Undefined, rules |-> <<>>, fb |-> This,
             prev |-> [reset |-> FALSE, cleared |-> ZeroCounters],
             val |-> Undefined, same |-> FALSE,
             exc |-> "none", ruleCalls |-> <<>>]
  /\ calls = 0
  /\ stats = NoStats

\* a filtering call with outcome r
Finish(op, arg, rules, r) ==
  /\ calls < MaxCalls
  /\ calls' = calls + 1
  /\ counters' = r.f.counters
  /\ issued' = r.f.issued
  /\ last' = Called(op, arg, rules, r)
  /\ stats' = StatsAfterIncrements(r.f.counters)
  /\ UNCHANGED toggles

FilterText ==
  \E t \in Texts \cup FalsyArgs :
    \E r \in {filterText(t, This)} : Finish("filterText", t, <<>>, r)

AnonymizeName ==
  \E n \in Names \cup FalsyArgs :
    \E r \in {anonymizeName(n, This)} : Finish("anonymizeName", n, <<>>, r)

AnonymizeCompany ==
  \E c \in Companies \cup FalsyArgs :
    \E r \in {anonymizeCompany(c, This)} :
      Finish("anonymizeCompany", c, <<>>, r)

FilterObject ==
  \E c \in ObjectCalls :
    \E r \in {filterObject(c.obj, c.rules, This)} :
      Finish("filterObject", c.obj, c.rules, r)

\* ConfluenceClient.filterPageData(page), for each result of a request
FilterPageData ==
  \E p \in Pages :
    \E r \in {filterPageData(p, This)} :
      Finish("filterPageData", p, PageRules, r)

\* resetCounters that clears the email counter only
ResetCountersEmailOnly ==
  /\ counters' = [counters EXCEPT !.email = 0]
  /\ issued' = [issued EXCEPT !.email = <<>>]
  /\ last' = Called("resetCounters", Undefined, <<>>,
                    Returned(Undefined, FALSE, This))
  /\ stats' = [stats EXCEPT !.live = FALSE]
  /\ UNCHANGED <<toggles, calls>>

\* resetCounters(): this.counters becomes a new object, all zero; a stats
\* value handed out before keeps the old object
ResetCounters ==
  /\ counters' = ZeroCounters
  /\ issued' = NoneIssued
  /\ last' = Called("resetCounters", Undefined, <<>>,
                    Returned(Undefined, FALSE, This))
  /\ stats' = [stats EXCEPT !.live = FALSE]
  /\ UNCHANGED <<toggles, calls>>

\* getStats(): {enabled: this.enabled, itemsFiltered: this.counters}, the
\* counters object itself and no copy of it
StatsValue ==
  [ty |-> "stats", enabled |-> enabled, itemsFiltered |-> counters]

\* getStats() by a caller that uses the value at once (the CLI prints it)
GetStats ==
  /\ last' = Called("getStats", Undefined, <<>>,
                    Returned(StatsValue, FALSE, This))
  /\ UNCHANGED <<toggles, counters, issued, calls, stats>>

\* getStats() by a caller that keeps the value (the clients return it to
\* theirs); it counts among the calls whose outcome is followed
KeepStats ==
  /\ calls < MaxCalls
  /\ calls' = calls + 1
  /\ last' = Called("getStats", Undefined, <<>>,
                    Returned(StatsValue, FALSE, This))
  /\ stats' = [held |-> TRUE, live |-> TRUE, enabled |-> enabled,
               itemsFiltered |-> counters, atCall |-> counters]
  /\ UNCHANGED <<toggles, counters, issued>>

Next ==
  \/ FilterText
  \/ AnonymizeName
  \/ AnonymizeCompany
  \/ FilterObject
  \/ FilterPageData
  \/ ResetCounters
  \/ GetStats

Spec == Init /\ [][Next]_vars

\* the same with callers that keep the stats value
NextKeeping == Next \/ KeepStats

SpecStats == Init /\ [][NextKeeping]_vars

\* ------------------------------------------------------------- properties
\* What the formulas below read off a text or a value.

Filtering == {"filterText", "filterObject", "anonymizeName", "anonymizeCompany"}

\* the call kept in `last` ran filterText over a non-empty string
ScrubbedText ==
  /\ last.op = "filterText"
  /\ enabled
  /\ last.arg.ty = "string"
  /\ last.arg.s # <<>>

\* the matches of the email pattern in t from index pos on, left to right
RECURSIVE EmailMatchesFrom(_, _)
EmailMatchesFrom(t, pos) ==
  LET i == NextEmailStart(t, pos)
      e == EmailMatchEnd(t, i)
  IN IF i = 0 THEN <<>>
     ELSE <<SubSeq(t, i, e)>> \o EmailMatchesFrom(t, e + 1)

EmailMatches(t) == EmailMatchesFrom(t, 1)

\* a token [EMAIL_<digits>] starts at index i of s
EmailTokenAt(s, i) ==
  /\ OccursAt(s, <<"[", "E", "M", "A", "I", "L", "_">>, i)
  /\ LET e == RunEnd(s, i + 7, Digit)
     IN e >= i + 7 /\ e < Len(s) /\ s[e + 1] = "]"

CountEmailTokens(s) == Cardinality({i \in 1..Len(s) : EmailTokenAt(s, i)})

\* the first index at which x occurs in s, or 0
IndexOf(s, x) ==
  IF includes(s, x) THEN Min({i \in 1..(Len(s) + 1) : OccursAt(s, x, i)}) ELSE 0

\* t holds a query parameter that filterSensitiveUrls redacts
HasSensitiveParam(t) ==
  \E i \in 1..Len(t) : UrlParamMatch(<<EmailParam>> \o UserIdParams, t, i).end # 0

\* the string values inside v with the keys that lead to each, in the order
\* of a traversal: <<[path |-> keys from the top, s |-> the string], ...>>
RECURSIVE Leaves(_, _)
RECURSIVE LeavesFrom(_, _, _)
Leaves(v, path) ==
  CASE v.ty = "string" -> <<[path |-> path, s |-> v.s]>>
    [] v.ty \in {"object", "array"} -> LeavesFrom(Entries(v), 1, path)
    [] OTHER -> <<>>

LeavesFrom(es, i, path) ==
  IF i > Len(es) THEN <<>>
  ELSE Leaves(es[i].v, Append(path, es[i].k)) \o LeavesFrom(es, i + 1, path)

\* the key a leaf is stored under
KeyOf(leaf) == leaf.path[Len(leaf.path)]

\* the call kept in `last` ran filterObject over an object or array and returned
Traversed ==
  /\ last.op = "filterObject"
  /\ enabled
  /\ last.arg.ty \in {"object", "array"}
  /\ last.exc = "none"

InLeaves == Leaves(last.arg, <<>>)

OutLeaves == Leaves(last.val, <<>>)

\* C1: while enabled is false, filterText, filterObject, anonymizeName and
\* anonymizeCompany return the argument itself, call no field rule and leave
\* the four counters as they were.
C1_DisabledIsIdentity ==
  (~enabled /\ last.op \in Filtering) =>
    /\ last.exc = "none"
    /\ last.same
    /\ last.val = last.arg
    /\ last.ruleCalls = <<>>
    /\ counters = last.fb.counters
    /\ issued = last.fb.issued

\* a disabled filter was handed an object with a ruled key and a rule table
C1_Witness ==
  /\ ~enabled
  /\ last.op = "filterObject"
  /\ last.arg = WrapN(1, Leaf(kCustomerName, tAcme))
  /\ last.rules = RuleTable
  /\ last.val = last.arg

\* C2: the k-th email replaced since construction or the last resetCounters
\* gets [EMAIL_k]: the placeholders issued are numbered 1, 2, ... in order,
\* over filterText calls and email-keyed values of filterObject alike; in one
\* text they are numbered left to right, one per match, also when two matches
\* are the same address.
C2_EmailsNumberedInOrder ==
  /\ Len(issued.email) = counters.email
  /\ \A k \in 1..Len(issued.email) : issued.email[k] = EmailToken(k)
  /\ (ScrubbedText /\ anonymizeEmails) =>
       LET b == last.fb.counters.email
           out == last.val.s
       IN /\ counters.email = b + Len(EmailMatches(last.arg.s))
          /\ \A j, k \in (b + 1)..counters.email :
               (j < k /\ includes(out, EmailToken(j))
                      /\ includes(out, EmailToken(k)))
                 => IndexOf(out, EmailToken(j)) < IndexOf(out, EmailToken(k))
          /\ ~HasSensitiveParam(last.arg.s) =>
               \A k \in (b + 1)..counters.email : includes(out, EmailToken(k))
  /\ (Traversed /\ last.rules = <<>>) =>
       \A i \in 1..Len(InLeaves) :
         toLowerCase(KeyOf(InLeaves[i])) \in emailKeys =>
           OutLeaves[i].s \in
             {EmailToken(k) : k \in (last.fb.counters.email + 1)..counters.email}

\* after an earlier replacement, one text with the same address twice got the
\* next two numbers
C2_Witness ==
  /\ ScrubbedText
  /\ last.arg = Str(<<"a", "@", "b", ".", "c", "o", " ", "a", "@", "b", ".", "c", "o">>)
  /\ last.fb.counters.email = 1
  /\ last.val = Str(<<"[", "E", "M", "A", "I", "L", "_", "2", "]", " ", "[", "E", "M", "A", "I", "L", "_", "3", "]">>)
  /\ issued.email = <<EmailToken(1), EmailToken(2), EmailToken(3)>>

\* C3 as stated: after filterText on an enabled filter with email detection
\* on, no email address matched in the input occurs in the output, and the
\* output holds as many [EMAIL_n] tokens as emails were matched.
C3_TokensEqualMatches ==
  (ScrubbedText /\ anonymizeEmails) =>
    /\ \A k \in 1..Len(EmailMatches(last.arg.s)) :
         ~includes(last.val.s, EmailMatches(last.arg.s)[k])
    /\ CountEmailTokens(last.val.s) = counters.email - last.fb.counters.email

\* C3 as amended: every match of the email pattern is replaced, so that no
\* text the pattern matches is left in the output; the output holds at most
\* as many [EMAIL_n] tokens more than the input as emails were matched, and
\* exactly as many more when the input has no email=, user_id=, userId= or
\* uid= query parameter.
C3_MatchesReplaced ==
  (ScrubbedText /\ anonymizeEmails) =>
    LET grown == counters.email - last.fb.counters.email
        more == CountEmailTokens(last.val.s) - CountEmailTokens(last.arg.s)
    IN /\ grown = Len(EmailMatches(last.arg.s))
       /\ EmailMatches(last.val.s) = <<>>
       /\ more <= grown
       /\ ~HasSensitiveParam(last.arg.s) => more = grown

\* an email that is the value of an email= parameter was matched and counted,
\* and the URL pass put [REDACTED] over its token
C3_Witness ==
  /\ ScrubbedText
  /\ anonymizeEmails
  /\ last.arg = Str(<<"x", "?", "e", "m", "a", "i", "l", "=", "a", "@", "b", ".", "c", "o">>)
  /\ last.val = Str(<<"x", "?", "e", "m", "a", "i", "l", "=", "[", "R", "E", "D", "A", "C", "T", "E", "D", "]">>)
  /\ counters.email = last.fb.counters.email + 1

\* C4: a category toggle that is off keeps every operation from issuing a
\* placeholder of its category and from incrementing its counter.
C4_TogglesGateEveryOperation ==
  /\ ~anonymizeEmails => (counters.email = 0 /\ issued.email = <<>>)
  /\ ~anonymizePhone => (counters.phone = 0 /\ issued.phone = <<>>)
  /\ ~anonymizeNames => (counters.name = 0 /\ issued.name = <<>>)

\* a leaf whose key, lower-cased, is on the allowlist
SafeLeaf(leaf) == toLowerCase(KeyOf(leaf)) \in safeFields

\* a leaf that reaches the rule table and has an entry there
RuledLeaf(leaf) == ~SafeLeaf(leaf) /\ RuleFor(last.rules, KeyOf(leaf)) # NoRule

\* a leaf that reaches the key-name branches
PlainLeaf(leaf) == ~SafeLeaf(leaf) /\ RuleFor(last.rules, KeyOf(leaf)) = NoRule

\* the leaves of q that reach the rule table and have an entry there, in order
RECURSIVE RuledOf(_)
RuledOf(q) ==
  IF q = <<>> THEN <<>>
  ELSE (IF RuledLeaf(Head(q)) THEN <<Head(q)>> ELSE <<>>) \o RuledOf(Tail(q))

\* what the rule functions of RuleTable return for the string s when the
\* company counter stands at c
RuleReturn(rule, s, c) ==
  CASE rule.kind = "keep" -> s
    [] rule.kind = "const" -> rule.s
    [] rule.kind = "company" -> CompanyLabel(s, c + 1)

C6_SafeFieldsPassThrough ==
  Traversed =>
    /\ \A i \in 1..Len(InLeaves) :
         SafeLeaf(InLeaves[i]) =>
           \E j \in 1..Len(OutLeaves) : OutLeaves[j] = InLeaves[i]
    /\ (\A i \in 1..Len(InLeaves) : SafeLeaf(InLeaves[i])) =>
         /\ counters = last.fb.counters
         /\ issued = last.fb.issued
         /\ last.ruleCalls = <<>>

\* an email address under createdAt, two containers deep, with email
\* detection on
C6_Witness ==
  /\ Traversed
  /\ anonymizeEmails
  /\ last.arg = WrapN(2, Leaf(kCreatedAt, tEmail))
  /\ last.val = last.arg
  /\ ~last.same
  /\ counters = last.fb.counters

\* C7: a string value under an email-like key (email, email_address,
\* user_email, any case) that is neither safe nor ruled is replaced as a whole
\* by [EMAIL_n], whatever it holds, and a value under a phone-like key by
\* [PHONE_n]; the one counter grows by exactly 1 and the text scrubber does not
\* run on the value (no other counter moves).
C7_KeyedValuesReplacedWhole ==
  Traversed =>
    /\ \A i \in 1..Len(InLeaves) :
         PlainLeaf(InLeaves[i]) =>
           /\ toLowerCase(KeyOf(InLeaves[i])) \in emailKeys =>
                \E n \in 1..counters.email : OutLeaves[i].s = EmailToken(n)
           /\ toLowerCase(KeyOf(InLeaves[i])) \in phoneKeys =>
                \E n \in 1..counters.phone : OutLeaves[i].s = PhoneToken(n)
    /\ (Len(InLeaves) = 1 /\ PlainLeaf(InLeaves[1])) =>
         LET b == last.fb.counters
         IN /\ toLowerCase(KeyOf(InLeaves[1])) \in emailKeys =>
                 /\ counters = [b EXCEPT !.email = @ + 1]
                 /\ OutLeaves[1].s = EmailToken(b.email + 1)
            /\ toLowerCase(KeyOf(InLeaves[1])) \in phoneKeys =>
                 /\ counters = [b EXCEPT !.phone = @ + 1]
                 /\ OutLeaves[1].s = PhoneToken(b.phone + 1)

\* an email address under the key phone became a phone token, with email
\* detection on and the email counter where it was
C7_Witness ==
  /\ Traversed
  /\ anonymizeEmails
  /\ last.arg = Leaf(kPhone, tEmail)
  /\ last.val = Leaf(kPhone, PhoneToken(counters.phone))
  /\ counters.phone = last.fb.counters.phone + 1
  /\ counters.email = last.fb.counters.email

\* C8: for the string values under non-safe keys that have an entry in the
\* rule table, filterObject calls the rule once each, in order, with the
\* value, and stores what the rule returns; the key-name branches and the text
\* scrubber are not applied, and the rule acts on the live filter: a rule on
\* customer_name that calls anonymizeCompany gives a company label and
\* increments the company counter, not the name counter.
C8_RuleHasFullAuthority ==
  Traversed =>
    /\ last.ruleCalls =
         [n \in 1..Len(RuledOf(InLeaves)) |->
            [k |-> KeyOf(RuledOf(InLeaves)[n]),
             arg |-> Str(RuledOf(InLeaves)[n].s)]]
    /\ (Len(InLeaves) = 1 /\ RuledLeaf(InLeaves[1]) /\ InLeaves[1].s # <<>>
          /\ KeyOf(InLeaves[1]) \in OwnKeys(last.rules)) =>
         LET rule == RuleFor(last.rules, KeyOf(InLeaves[1]))
             b == last.fb.counters
         IN /\ OutLeaves[1].s = RuleReturn(rule, InLeaves[1].s, b.company)
            /\ counters =
                 IF rule.kind = "company"
                 THEN [b EXCEPT !.company = @ + 1] ELSE b

\* the rule on customer_name turned 'Acme Corp' into a company label
C8_Witness ==
  /\ Traversed
  /\ anonymizeNames
  /\ last.arg = Leaf(kCustomerName, tAcme)
  /\ last.rules = RuleTable
  /\ last.val = Leaf(kCustomerName, <<"E", "n", "t", "e", "r", "p", "r", "i", "s", "e", " ", "C", "l", "i", "e", "n", "t", " ", "1">>)
  /\ last.ruleCalls = <<[k |-> kCustomerName, arg |-> Str(tAcme)]>>
  /\ counters.company = 1
  /\ counters.name = 0

\* C9: a string value is treated at every depth as it is at depth 1, with the
\* same rule table matched by the key alone: filtering an object that lies d
\* containers deep gives the d containers around what filtering the object
\* itself gives, with the same counters and rule calls, and every string
\* value of the result lies at the path it had in the argument.
C9_SameTreatmentAtEveryDepth ==
  Traversed =>
    /\ \A i \in 1..Len(InLeaves) :
         (\/ KeyOf(InLeaves[i]) \in OwnKeys(last.rules)
          \/ toLowerCase(KeyOf(InLeaves[i])) \in
               emailKeys \cup phoneKeys \cup nameKeys \cup companyKeys)
           => \E j \in 1..Len(OutLeaves) :
                OutLeaves[j].path = InLeaves[i].path
    /\ \A d \in 1..MaxDepth : \A o \in LeafObjects :
         last.arg = WrapN(d, o) =>
           LET r == filterObject(o, last.rules, last.fb)
           IN /\ last.val = WrapN(d, r.val)
              /\ counters = r.f.counters
              /\ last.ruleCalls = r.f.ruleCalls

\* a ruled key two containers deep, inside an array inside an object
C9_Witness ==
  /\ Traversed
  /\ last.arg = WrapN(2, Leaf(kCustomerName, tAcme))
  /\ last.rules = RuleTable
  /\ last.val = WrapN(2, Leaf(kCustomerName, <<"E", "n", "t", "e", "r", "p", "r", "i", "s", "e", " ", "C", "l", "i", "e", "n", "t", " ", "1">>))
  /\ last.val.props[1].v.ty = "array"

\* C10: on an enabled filter each of filterText, anonymizeName,
\* anonymizeCompany and filterObject returns a null, undefined or empty-string
\* argument as it is (null stays null), raises nothing and changes no counter.
C10_FalsyArgumentsReturned ==
  (enabled /\ last.op \in Filtering /\ last.arg \in FalsyArgs) =>
    /\ last.exc = "none"
    /\ last.val = last.arg
    /\ last.same
    /\ counters = last.fb.counters
    /\ issued = last.fb.issued
    /\ last.ruleCalls = <<>>

\* anonymizeName(null) on a filter that anonymizes names
C10_Witness ==
  /\ enabled
  /\ anonymizeNames
  /\ last.op = "anonymizeName"
  /\ last.arg = Null
  /\ last.val = Null
  /\ last.exc = "none"

\* the three prefixes of a company label
CompanyPrefixes == {LabelEnterprise, LabelStartup, LabelCompany}

\* C11: the k-th call of anonymizeName that returns a pseudonym since the
\* construction or the last reset returns 'Participant k' whatever the string,
\* and the k-th such call of anonymizeCompany returns one of the three labels
\* with the number k: the three labels share one counter.
C11_LabelsNumberedByCall ==
  /\ \A k \in 1..Len(issued.name) : issued.name[k] = ParticipantLabel(k)
  /\ \A k \in 1..Len(issued.company) :
       \E p \in CompanyPrefixes : issued.company[k] = p \o DecStr(k)
  /\ (enabled /\ last.op = "anonymizeName" /\ ~last.same) =>
       last.val = Str(ParticipantLabel(Len(last.fb.issued.name) + 1))
  /\ (enabled /\ last.op = "anonymizeCompany" /\ ~last.same) =>
       /\ last.exc = "none"
       /\ \E p \in CompanyPrefixes :
            last.val = Str(p \o DecStr(Len(last.fb.issued.company) + 1))

\* the second company call got number 2 under another label than the first
C11_Witness ==
  /\ enabled
  /\ last.op = "anonymizeCompany"
  /\ last.arg = Str(<<"M", "y", " ", "S", "t", "a", "r", "t", "u", "p">>)
  /\ last.fb.issued.company = <<LabelEnterprise \o <<"1">> >>
  /\ last.val = Str(LabelStartup \o <<"2">>)

C14_ResetRestartsNumbering ==
  /\ last.op = "resetCounters" =>
       /\ counters = ZeroCounters
       /\ <<enabled, anonymizeEmails, anonymizeNames, anonymizePhone>> =
            <<last.fb.enabled, last.fb.anonymizeEmails,
              last.fb.anonymizeNames, last.fb.anonymizePhone>>
  /\ (last.prev.reset /\ last.op \in Filtering) =>
       /\ last.fb.counters = ZeroCounters
       /\ issued.email = [k \in 1..counters.email |-> EmailToken(k)]
       /\ issued.phone = [k \in 1..counters.phone |-> PhoneToken(k)]
       /\ issued.name = [k \in 1..counters.name |-> ParticipantLabel(k)]
       /\ Len(issued.company) = counters.company
       /\ \A k \in 1..counters.company :
            \E p \in CompanyPrefixes : issued.company[k] = p \o DecStr(k)

\* an email and a phone number were counted, the counters were reset, and the
\* next email became [EMAIL_1]
C14_Witness ==
  /\ enabled
  /\ last.prev.reset
  /\ last.prev.cleared.email = 1
  /\ last.prev.cleared.phone = 1
  /\ last.op = "filterText"
  /\ last.arg = Str(tEmail)
  /\ last.val = Str(EmailToken(1))
  /\ counters = [ZeroCounters EXCEPT !.email = 1]

\* C15 as stated: getStats changes neither counters nor toggles, and the counts
\* in a stats value that a caller holds stay what the counters were at the
\* moment of the call, whatever the filter does afterwards.
C15_StatsAreSnapshot ==
  /\ last.op = "getStats" =>
       /\ counters = last.fb.counters
       /\ <<enabled, anonymizeEmails, anonymizeNames, anonymizePhone>> =
            <<last.fb.enabled, last.fb.anonymizeEmails,
              last.fb.anonymizeNames, last.fb.anonymizePhone>>
  /\ stats.held => stats.itemsFiltered = stats.atCall

\* the leftmost query parameter that filterSensitiveUrls redacts in t: the
\* index of its delimiter, or 0
FirstParam(t) == NextUrlParamStart(<<EmailParam>> \o UserIdParams, t, 1)

\* C16: whenever filterText runs over a non-empty text on an enabled filter,
\* every email=, user_id=, userId= and uid= parameter of the result has the
\* value [REDACTED]; with both anonymizeEmails and anonymizePhone off the text
\* up to and with the "=" of the first such parameter is kept and [REDACTED]
\* follows it; the URL pass adds nothing to any counter.
C16_UrlParametersAlwaysRedacted ==
  (ScrubbedText /\ last.exc = "none") =>
    LET in == last.arg.s
        out == last.val.s
        names == <<EmailParam>> \o UserIdParams
        b == last.fb.counters
    IN /\ \A i \in 1..Len(out) :
            UrlParamMatch(names, out, i).end # 0 =>
              SubSeq(out, UrlParamMatch(names, out, i).last + 1,
                     UrlParamMatch(names, out, i).end) = Redacted
       /\ (~anonymizeEmails /\ ~anonymizePhone /\ FirstParam(in) # 0) =>
            LET m == UrlParamMatch(names, in, FirstParam(in))
            IN /\ SubSeq(out, 1, m.last) = SubSeq(in, 1, m.last)
               /\ OccursAt(out, Redacted, m.last + 1)
       /\ (~anonymizeEmails /\ ~anonymizePhone /\ FirstParam(in) = 0) =>
            out = in
       /\ counters.name = b.name
       /\ counters.company = b.company
       /\ counters.email =
            IF anonymizeEmails THEN b.email + Len(EmailMatches(in)) ELSE b.email
       /\ ~anonymizePhone => counters.phone = b.phone

\* both parameters of 'u?userId=1&user_id=2 k' were redacted with email and
\* phone detection off
C16_Witness ==
  /\ ScrubbedText
  /\ ~anonymizeEmails
  /\ ~anonymizePhone
  /\ last.arg = Str(tUserIds)
  /\ last.val = Str(<<"u", "?", "u", "s", "e", "r", "I", "d", "=", "[", "R", "E", "D", "A", "C", "T", "E", "D", "]", "&", "u", "s", "e", "r", "_", "i", "d", "=", "[", "R", "E", "D", "A", "C", "T", "E", "D", "]", " ", "k">>)
  /\ counters = last.fb.counters

\* an international-format number starts at index i of t, at the start of the
\* text or after white space: '+', 1 to 3 digits, then groups of 2 to 4, 3 to 4
\* and 4 digits, each after one white-space character; its last index, or 0
IntlNumberEnd(t, i) ==
  LET g1 == RunEnd(t, i + 1, Digit)
      g2 == RunEnd(t, g1 + 2, Digit)
      g3 == RunEnd(t, g2 + 2, Digit)
      g4 == RunEnd(t, g3 + 2, Digit)
  IN IF /\ i >= 1
        /\ i <= Len(t)
        /\ t[i] = "+"
        /\ (i = 1 \/ t[i - 1] \in WhiteSpace)
        /\ g1 - i \in 1..3
        /\ g1 < Len(t) /\ t[g1 + 1] \in WhiteSpace
        /\ g2 - (g1 + 1) \in 2..4
        /\ g2 < Len(t) /\ t[g2 + 1] \in WhiteSpace
        /\ g3 - (g2 + 1) \in 3..4
        /\ g3 < Len(t) /\ t[g3 + 1] \in WhiteSpace
        /\ g4 - (g3 + 1) = 4
     THEN g4
     ELSE 0

\* C17 as stated: with phone detection on, filterText replaces every
\* international-format number that stands at the start of the text or after
\* white space by one [PHONE_n] token: the phone counter grows by one for each
\* and no '+' with its country code is left in the result.
C17_InternationalNumbersReplaced ==
  (ScrubbedText /\ anonymizePhone) =>
    LET in == last.arg.s
        out == last.val.s
        numbers == {i \in 1..Len(in) : IntlNumberEnd(in, i) # 0}
    IN numbers # {} =>
         /\ counters.phone = last.fb.counters.phone + Cardinality(numbers)
         /\ \A j \in 1..(Len(out) - 1) : ~(out[j] = "+" /\ out[j + 1] \in Digit)

\* the canonical form of a UUID starts at index i of t
HexChar == Digit \cup HexLetter

IsUuidAt(t, i) ==
  /\ i >= 1
  /\ i + 35 <= Len(t)
  /\ \A k \in 0..35 :
       IF k \in {8, 13, 18, 23} THEN t[i + k] = "-" ELSE t[i + k] \in HexChar

\* every digit of t lies inside a UUID
DigitsOnlyInUuids(t) ==
  \A k \in 1..Len(t) :
    t[k] \in Digit => \E i \in 1..k : IsUuidAt(t, i) /\ k <= i + 35

\* C18 as stated: filterText leaves every canonical UUID of a text unchanged
\* and does not count a phone number for it.
C18_UuidsUnchanged ==
  ScrubbedText =>
    \A i \in 1..Len(last.arg.s) :
      IsUuidAt(last.arg.s, i) =>
        /\ includes(last.val.s, SubSeq(last.arg.s, i, i + 35))
        /\ DigitsOnlyInUuids(last.arg.s) =>
             counters.phone = last.fb.counters.phone

\* C18 as amended: no phone pattern matches inside a canonical UUID, so the
\* phone pass leaves it unchanged and counts nothing for it, and filterText
\* returns it unchanged when the text has no email match and no email=,
\* user_id=, userId= or uid= parameter (a UUID that is the value of such a
\* parameter is replaced by [REDACTED]).
C18_UuidsSurvivePhonePass ==
  ScrubbedText =>
    \A i \in 1..Len(last.arg.s) :
      IsUuidAt(last.arg.s, i) =>
        /\ (EmailMatches(last.arg.s) = <<>> /\ ~HasSensitiveParam(last.arg.s))
             => includes(last.val.s, SubSeq(last.arg.s, i, i + 35))
        /\ DigitsOnlyInUuids(last.arg.s) =>
             counters.phone = last.fb.counters.phone

\* a UUID whose groups are all digits came back as it was, with phone
\* detection on
C18_Witness ==
  /\ ScrubbedText
  /\ anonymizePhone
  /\ last.arg = Str(tUuidDigits)
  /\ IsUuidAt(last.arg.s, 1)
  /\ last.val = last.arg
  /\ ~last.same
  /\ counters = last.fb.counters

\* C19 as stated: with an empty rule table filterObject raises nothing for any
\* value of nested objects, arrays, strings, numbers, booleans and null under
\* any keys, and every string value of the argument is found, processed, at
\* the same path in the result.
C19_FilterObjectIsTotal ==
  (enabled /\ last.op = "filterObject" /\ last.rules = <<>>
     /\ last.arg.ty \in {"object", "array"}) =>
    /\ last.exc = "none"
    /\ [i \in 1..Len(OutLeaves) |-> OutLeaves[i].path] =
         [i \in 1..Len(InLeaves) |-> InLeaves[i].path]

\* the first string value of the argument whose rule throws: its index in
\* InLeaves, or 0
FirstThrowing ==
  LET S == {i \in 1..Len(InLeaves) :
              /\ RuledLeaf(InLeaves[i])
              /\ RuleFor(last.rules, KeyOf(InLeaves[i])).kind = "throw"}
  IN IF S = {} THEN 0 ELSE Min(S)

\* C20: when a rule function throws during a traversal, filterObject does not
\* catch it: the exception leaves the outermost filterObject call, which
\* returns nothing, and no rule is called after the one that threw.
C20_RuleExceptionPropagates ==
  (enabled /\ last.op = "filterObject" /\ last.arg.ty \in {"object", "array"}
     /\ FirstThrowing # 0) =>
    /\ last.exc = "Error"
    /\ last.val = Undefined
    /\ ~last.same
    /\ last.ruleCalls =
         [n \in 1..Len(RuledOf(SubSeq(InLeaves, 1, FirstThrowing))) |->
            [k |-> KeyOf(RuledOf(SubSeq(InLeaves, 1, FirstThrowing))[n]),
             arg |-> Str(RuledOf(SubSeq(InLeaves, 1, FirstThrowing))[n].s)]]

\* the rule on note threw two containers deep, after the email before it was
\* counted and before the phone number after it was reached
C20_Witness ==
  /\ enabled
  /\ last.op = "filterObject"
  /\ last.arg = WrapN(2, ThreeFields)
  /\ last.rules = ThrowTable
  /\ last.exc = "Error"
  /\ last.val = Undefined
  /\ last.ruleCalls = <<[k |-> kNote, arg |-> Str(tHi)]>>
  /\ counters.email = last.fb.counters.email + 1
  /\ counters.phone = last.fb.counters.phone

\* the string values of the page that are the displayName of an object under
\* createdBy or lastModifiedBy: their indices in InLeaves
AuthorNames ==
  {i \in 1..Len(InLeaves) :
     /\ Len(InLeaves[i].path) >= 2
     /\ KeyOf(InLeaves[i]) = kDisplayName
     /\ InLeaves[i].path[Len(InLeaves[i].path) - 1] \in {kCreatedBy, kLastModifiedBy}
     /\ InLeaves[i].s # <<>>}

\* C21 as stated: filterPageData, with name anonymization on, stores a
\* 'Participant n' pseudonym as the displayName of createdBy and of
\* lastModifiedBy, and the original display name occurs in no string of the
\* filtered page.
C21_AuthorNamesAnonymized ==
  (enabled /\ anonymizeNames /\ last.op = "filterPageData") =>
    /\ last.exc = "none"
    /\ \A i \in AuthorNames :
         /\ \E j \in 1..Len(OutLeaves) :
              /\ OutLeaves[j].path = InLeaves[i].path
              /\ \E n \in 1..counters.name : OutLeaves[j].s = ParticipantLabel(n)
         /\ \A j \in 1..Len(OutLeaves) : ~includes(OutLeaves[j].s, InLeaves[i].s)

\* the placeholder with number k in each category
Numbered(c, k) ==
  CASE c = "email" -> {EmailToken(k)}
    [] c = "phone" -> {PhoneToken(k)}
    [] c = "name" -> {ParticipantLabel(k)}
    [] OTHER -> {p \o DecStr(k) : p \in CompanyPrefixes}

\* C22: every counter is 0 at construction; a call changes a counter only by
\* the number of replacements it made in that category, each adding 1 (a
\* replacement of another category leaves it alone), and resetCounters makes
\* it 0; since the last reset the placeholders issued in a category carry
\* exactly the numbers 1..counter, in order and once each, whichever
\* operation issued them.
C22_CountersCountOwnReplacements ==
  /\ last.op = "new" => counters = ZeroCounters
  /\ last.op = "resetCounters" => counters = ZeroCounters
  /\ last.op = "getStats" => counters = last.fb.counters
  /\ \A c \in DOMAIN counters :
       /\ Len(issued[c]) = counters[c]
       /\ \A k \in 1..counters[c] : issued[c][k] \in Numbered(c, k)
       /\ \A j, k \in 1..counters[c] : j # k => issued[c][j] # issued[c][k]
       /\ last.op \notin {"new", "resetCounters"} =>
            /\ counters[c] >= last.fb.counters[c]
            /\ SubSeq(issued[c], 1, last.fb.counters[c]) = last.fb.issued[c]
  /\ last.op = "filterText" =>
       /\ counters.name = last.fb.counters.name
       /\ counters.company = last.fb.counters.company
  /\ last.op = "anonymizeName" =>
       counters = [last.fb.counters EXCEPT !.name = counters.name]
  /\ last.op = "anonymizeCompany" =>
       counters = [last.fb.counters EXCEPT !.company = counters.company]

\* after filterText had issued [EMAIL_1], filterObject issued [EMAIL_2] under
\* the key email and nothing else
C22_Witness ==
  /\ last.op = "filterObject"
  /\ last.arg = Obj(<<Prop(kId, Str(<<"x">>)), Prop(kEmail, Str(tEmail))>>)
  /\ last.fb.counters = [ZeroCounters EXCEPT !.email = 1]
  /\ counters = [ZeroCounters EXCEPT !.email = 2]
  /\ issued.email = <<EmailToken(1), EmailToken(2)>>

\* the paths (keys from the top) of all values inside v, v itself included
RECURSIVE Paths(_)
Paths(v) ==
  IF v.ty \in {"object", "array"}
  THEN {<<>>} \cup UNION {{<<Entries(v)[n].k>> \o q : q \in Paths(Entries(v)[n].v)} :
                            n \in 1..Len(Entries(v))}
  ELSE {<<>>}

\* v[path[1]][path[2]]..., undefined where a key is missing
RECURSIVE ValueAt(_, _)
ValueAt(v, path) ==
  IF path = <<>> THEN v
  ELSE IF v.ty \in {"object", "array"}
          /\ \E n \in 1..Len(Entries(v)) : Entries(v)[n].k = Head(path)
  THEN ValueAt(Entries(v)[CHOOSE n \in 1..Len(Entries(v)) :
                            Entries(v)[n].k = Head(path)].v, Tail(path))
  ELSE Undefined

\* filterObject, directly or through filterPageData, went over an object or
\* array on an enabled filter
Walked ==
  /\ enabled
  /\ last.op \in {"filterObject", "filterPageData"}
  /\ last.arg.ty \in {"object", "array"}

\* C23: filterObject calls rules for string values only: the rule calls of a
\* traversal are those for the ruled string values, in order, each with the
\* string; an object or array under a key that has a rule is recursed into,
\* and a number, boolean or null is copied unchanged, without a rule call
\* (what the assignment does to a value copied under the key __proto__ is the
\* matter of C25).
C23_RulesForStringsOnly ==
  Walked =>
    /\ \A n \in 1..Len(last.ruleCalls) : last.ruleCalls[n].arg.ty = "string"
    /\ (\A i \in 1..Len(InLeaves) : ~RuledLeaf(InLeaves[i])) =>
         /\ last.exc = "none"
         /\ last.ruleCalls = <<>>
    /\ last.exc = "none" =>
         /\ Len(last.ruleCalls) = Len(RuledOf(InLeaves))
         /\ \A n \in 1..Len(last.ruleCalls) :
              last.ruleCalls[n] = [k |-> KeyOf(RuledOf(InLeaves)[n]),
                                   arg |-> Str(RuledOf(InLeaves)[n].s)]
         /\ \A q \in Paths(last.arg) :
              (\A n \in 1..Len(q) : q[n] # kProto) =>
                /\ ValueAt(last.arg, q).ty \in {"number", "boolean", "null"} =>
                     ValueAt(last.val, q) = ValueAt(last.arg, q)
                /\ ValueAt(last.arg, q).ty \in {"object", "array"} =>
                     ValueAt(last.val, q).ty = ValueAt(last.arg, q).ty

\* every key of {count: 3, done: false, gone: null, user: [0, 'hi']} had a
\* rule that throws, and the object was copied without a rule call
C23_Witness ==
  /\ Walked
  /\ last.arg = Scalars
  /\ last.rules = ScalarTable
  /\ RuleFor(last.rules, kUser).kind = "throw"
  /\ last.exc = "none"
  /\ last.ruleCalls = <<>>
  /\ last.val = Scalars
  /\ ~last.same

\* C24: one filterText call is the email pass (when on), then the phone pass
\* (when on) over its result, then the URL pass over that; the phone pass is
\* the first pattern over the whole text, then the second over the result,
\* then the third, each numbering its matches left to right, so that every
\* match of an earlier pattern has a lower number than any of a later one.
C24_PassesInFixedOrder ==
  (ScrubbedText /\ last.exc = "none") =>
    LET fb == last.fb
        r0 == IF anonymizeEmails THEN filterEmailsFrom(last.arg.s, 1, fb)
              ELSE [out |-> last.arg.s, f |-> fb]
        r1 == IF anonymizePhone THEN replacePhonesFrom(1, r0.out, 1, r0.f) ELSE r0
        r2 == IF anonymizePhone THEN replacePhonesFrom(2, r1.out, 1, r1.f) ELSE r1
        r3 == IF anonymizePhone THEN replacePhonesFrom(3, r2.out, 1, r2.f) ELSE r2
    IN /\ last.val.s = filterSensitiveUrls(r3.out)
       /\ counters = r3.f.counters
       /\ issued = r3.f.issued
       /\ \A j \in (fb.counters.phone + 1)..r1.f.counters.phone :
            \A k \in (r1.f.counters.phone + 1)..counters.phone :
              /\ includes(r1.out, PhoneToken(j))
              /\ ~includes(r1.out, PhoneToken(k))
              /\ includes(r3.out, PhoneToken(k))

\* 'a+44 20 7946 0958 555-123-4567': the number on the right, found by the
\* first pattern, is 1 and the one on the left, found by the second, is 2
C24_Witness ==
  /\ ScrubbedText
  /\ anonymizePhone
  /\ last.arg = Str(<<"a">> \o tIntlUk \o <<" ">> \o tPhone)
  /\ last.fb.counters.phone = 0
  /\ last.val = Str(<<"a">> \o PhoneToken(2) \o <<" ">> \o PhoneToken(1))
  /\ counters.phone = 2

\* the keys of a container, in order
KeysOf(v) == [n \in 1..Len(Entries(v)) |-> Entries(v)[n].k]

\* C25 as stated: for an object or array, filterObject returns new containers
\* of the same kind at every level, an array of the same length and an object
\* with exactly the same keys.  (The argument itself cannot change here: the
\* methods write to the new containers and to this.counters only.)
C25_SameShapeCopy ==
  (Walked /\ last.exc = "none") =>
    /\ ~last.same
    /\ \A q \in Paths(last.arg) :
         ValueAt(last.arg, q).ty \in {"object", "array"} =>
           /\ ValueAt(last.val, q).ty = ValueAt(last.arg, q).ty
           /\ KeysOf(ValueAt(last.val, q)) = KeysOf(ValueAt(last.arg, q))

\* s is a placeholder of some category with a number up to the counter
IsPlaceholder(s) ==
  \E c \in DOMAIN counters : \E k \in 1..counters[c] : s \in Numbered(c, k)

\* C26: the callers of a shared filter take turns by whole calls (each step
\* is one public call of any caller, a rule of filterObject re-entering the
\* filter within it); no increment is lost: each counter is the number of
\* replacements made in its category since the last reset, a call adds to it
\* exactly what it replaced, and no two placeholders of a category have the
\* same number, neither among those issued nor among the values of one
\* filtered object.
C26_NoLostUpdate ==
  /\ \A c \in DOMAIN counters :
       /\ counters[c] = Len(issued[c])
       /\ \A j \in 1..Len(issued[c]) : \A k \in (j + 1)..Len(issued[c]) :
            issued[c][j] # issued[c][k]
       /\ last.op \in Filtering \cup {"filterPageData"} =>
            counters[c] - last.fb.counters[c] =
              Len(issued[c]) - Len(last.fb.issued[c])
  /\ (Walked /\ last.exc = "none") =>
       \A i \in 1..Len(OutLeaves) : \A j \in (i + 1)..Len(OutLeaves) :
         IsPlaceholder(OutLeaves[i].s) => OutLeaves[i].s # OutLeaves[j].s

\* after another call had issued [EMAIL_1], the traversal issued [EMAIL_2]
\* itself, [EMAIL_3] through the rule that calls filterText, and [EMAIL_4]
\* itself again
C26_Witness ==
  /\ Walked
  /\ anonymizeEmails
  /\ last.arg = ReentrantCall.obj
  /\ last.rules = ReentrantCall.rules
  /\ last.fb.counters.email = 1
  /\ last.ruleCalls = <<[k |-> kNote, arg |-> Str(tEmail)]>>
  /\ last.val = Arr(<<Leaf(kEmail, EmailToken(2)), Leaf(kNote, EmailToken(3)),
                      Leaf(kEmail, EmailToken(4))>>)
  /\ counters.email = 4

\* the empty string values of the argument: their indices in InLeaves
EmptyLeaves == {i \in 1..Len(InLeaves) : InLeaves[i].s = <<>>}

\* C27 as stated: with no rules, an empty string value comes back as the
\* empty string under every key and changes no counter.
C27_EmptyStaysEmpty ==
  (Traversed /\ last.rules = <<>>) =>
    /\ \A i \in EmptyLeaves : ValueAt(last.val, InLeaves[i].path) = Str(<<>>)
    /\ EmptyLeaves = 1..Len(InLeaves) => counters = last.fb.counters

\* C27 as amended: with no rules, an empty string value comes back as the
\* empty string, and counts nothing, under every key that is neither
\* email-like nor phone-like (nor a member name of Object.prototype); under
\* an email-like key it becomes [EMAIL_n] and under a phone-like key
\* [PHONE_n], each adding 1 to its counter.
C27_EmptyKeptExceptKeyed ==
  (Traversed /\ last.rules = <<>>) =>
    /\ \A i \in EmptyLeaves :
         LET low == toLowerCase(KeyOf(InLeaves[i]))
             out == ValueAt(last.val, InLeaves[i].path)
         IN KeyOf(InLeaves[i]) \notin ObjectPrototypeKeys =>
              /\ out.ty = "string"
              /\ (low \in emailKeys /\ low \notin safeFields) =>
                   \E n \in (last.fb.counters.email + 1)..counters.email :
                     out.s = EmailToken(n)
              /\ (low \in phoneKeys /\ low \notin safeFields) =>
                   \E n \in (last.fb.counters.phone + 1)..counters.phone :
                     out.s = PhoneToken(n)
              /\ low \notin emailKeys \cup phoneKeys => out.s = <<>>
    /\ (EmptyLeaves = 1..Len(InLeaves)
          /\ \A i \in EmptyLeaves : KeyOf(InLeaves[i]) \notin ObjectPrototypeKeys) =>
         LET keyed(K) ==
               Cardinality({i \in EmptyLeaves : toLowerCase(KeyOf(InLeaves[i])) \in K})
         IN counters = [last.fb.counters EXCEPT !.email = @ + keyed(emailKeys),
                                                !.phone = @ + keyed(phoneKeys)]

\* of six empty values, the one under email and the one under phone became
\* placeholders and the other four stayed empty
C27_Witness ==
  /\ Traversed
  /\ anonymizeNames
  /\ last.arg = EmptyFields
  /\ last.rules = <<>>
  /\ ValueAt(last.val, <<kEmail>>) = Str(EmailToken(counters.email))
  /\ ValueAt(last.val, <<kPhone>>) = Str(PhoneToken(counters.phone))
  /\ ValueAt(last.val, <<kCustomerName>>) = Str(<<>>)
  /\ ValueAt(last.val, <<kNote>>) = Str(<<>>)
  /\ counters = [last.fb.counters EXCEPT !.email = @ + 1, !.phone = @ + 1]

\* C28 as stated: filterObject of a non-empty string is the string that
\* filterText gives for it, counted as filterText counts, and filterObject of
\* a number or boolean is that number or boolean, with no counter changed.
C28_TopLevelScalarsStayScalars ==
  (enabled /\ last.op = "filterObject" /\ last.exc = "none") =>
    /\ (last.arg.ty = "string" /\ last.arg.s # <<>>) =>
         /\ last.val = filterText(last.arg, last.fb).val
         /\ counters = filterText(last.arg, last.fb).f.counters
    /\ last.arg.ty \in {"number", "boolean"} =>
         /\ last.val = last.arg
         /\ counters = last.fb.counters

\* C29 as stated: with the empty rule table no rule is dispatched: a string
\* value under a key that is neither safe nor one of the built-in PII keys,
\* the member names of Object.prototype included, is kept under its key as
\* the string that filterText gives for it.
C29_OnlyOwnRulesDispatch ==
  (enabled /\ last.op = "filterObject" /\ last.rules = <<>>
     /\ last.arg.ty \in {"object", "array"}) =>
    LET free == {i \in 1..Len(InLeaves) :
                   toLowerCase(KeyOf(InLeaves[i])) \notin
                     safeFields \cup emailKeys \cup phoneKeys
                       \cup nameKeys \cup companyKeys}
    IN /\ last.ruleCalls = <<>>
       /\ \A i \in free :
            /\ last.exc = "none"
            /\ ValueAt(last.val, InLeaves[i].path).ty = "string"
       /\ (Len(InLeaves) = 1 /\ free = {1}) =>
            /\ ValueAt(last.val, InLeaves[1].path) =
                 filterText(Str(InLeaves[1].s), last.fb).val
            /\ counters = filterText(Str(InLeaves[1].s), last.fb).f.counters

\* C30 as stated: with email and phone detection on and no rules, whatever
\* anonymizeNames is, no string value under a non-safe key is found in the
\* result with a match of the email pattern or of a phone pattern in it.
C30_NoLeafSkipsScrubbing ==
  (Traversed /\ anonymizeEmails /\ anonymizePhone /\ last.rules = <<>>) =>
    \A i \in 1..Len(InLeaves) :
      ~SafeLeaf(InLeaves[i]) =>
        LET out == ValueAt(last.val, InLeaves[i].path)
        IN out.ty \in {"string", "String"} =>
             /\ NextEmailStart(out.s, 1) = 0
             /\ \A p \in 1..3 : NextPhoneStart(p, out.s, 1) = 0

====
